---- MODULE Spec2Model ----
(***************************************************************************)
(* worktree-cli: the slot registry (ports.ts), the host-port arithmetic,   *)
(* the compose generator (compose.js) and the create / remove / cleanup    *)
(* lifecycle (operations.js), as state machines.                           *)
(*                                                                         *)
(* The specifications share the operators below:                         *)
(*   SpecReg      assignSlot / releaseSlot / getSlot on one registry file  *)
(*                that starts absent or empty;                             *)
(*   SpecCorrupt  the same operations on a file that may start corrupt;    *)
(*   SpecPort     calculateHostPort on drawn inputs;                       *)
(*   SpecGen      generateCompose on drawn catalogs, offsets and slots;    *)
(*   Spec         createWorktree / removeWorktree / cleanupAll, one        *)
(*                invocation at a time, against one project;               *)
(*   SpecTrace    the same, with the collaborators each invocation calls;  *)
(*   SpecDev      start / stop / status / logs / list from any directory;  *)
(*   SpecRace     two processes interleaving registry reads and writes;    *)
(*   SpecWait     waitForContainerHealthy, with fairness of its loop;      *)
(*   SpecNs       create / start / stop / remove and the runtime's names;  *)
(*   SpecLost     the lifecycle with directories deleted by other means;   *)
(*   SpecIso      generateCompose for main and hyphenated names.           *)
(***************************************************************************)
EXTENDS Integers, Sequences, FiniteSets, TLC

(***************************************************************************)
(* Bounds of the model.                                                    *)
(***************************************************************************)
\* largest ports.max_worktrees a registry run is configured with
MaxSlots == 2
\* largest slot the generator is asked for
MaxGenSlot == 2
\* the invocations of one run of the lifecycle specification
MaxCalls == 4
\* the invocations of one run of the lifecycle specification with traces
MaxTraceCalls == 3
MaxDevCalls == 3
\* the registry calls of one run of the two processes
MaxRaceCalls == 3

\* Environment names.  They are ordinary identifiers: own keys of the JSON
\* object, never a property every object inherits.
Names == {"wt-1", "wt-2", "wt-3"}

Range(s) == {s[i] : i \in DOMAIN s}

(***************************************************************************)
(* JavaScript values a parsed registry can be, and the registry file.      *)
(*   kind "object": a plain object, map its own enumerable properties      *)
(*   kind "array" : elems its elements, map the named properties set on it *)
(*   kind "null"  : null                                                   *)
(*   kind "prim"  : a number, string or boolean primitive                  *)
(***************************************************************************)
EmptyMap == [n \in {} |-> 0]

JsObject(m) == [kind |-> "object", map |-> m, elems |-> <<>>]
JsArray(e, m) == [kind |-> "array", map |-> m, elems |-> e]
JsNull == [kind |-> "null", map |-> EmptyMap, elems |-> <<>>]
JsPrim == [kind |-> "prim", map |-> EmptyMap, elems |-> <<>>]

\* File states: no file, text JSON.parse rejects, or JSON text.
AbsentFile == [state |-> "absent", json |-> "", map |-> EmptyMap, elems |-> <<>>]
GarbageFile == [state |-> "text", json |-> "", map |-> EmptyMap, elems |-> <<>>]

\* JSON.stringify(slots, null, 2): an object is written with its own
\* properties, an array with its elements only (named properties are not
\* serialised), null and primitives as themselves.
JSONstringify(v) ==
    [state |-> "json", json |-> v.kind,
     map |-> IF v.kind = "object" THEN v.map ELSE EmptyMap,
     elems |-> IF v.kind = "array" THEN v.elems ELSE <<>>]

\* JSON.parse of JSON text (never of GarbageFile, which makes it throw).
JSONparse(f) ==
    [kind |-> f.json, map |-> f.map, elems |-> f.elems]

\* property read slots[name]: the set holding the value, {} for undefined
PropGet(v, name) ==
    IF name \in DOMAIN v.map THEN {v.map[name]} ELSE {}

\* Object.values(slots)
ObjectValues(v) ==
    CASE v.kind = "object" -> Range(v.map)
      [] v.kind = "array" -> Range(v.elems) \cup Range(v.map)
      [] OTHER -> {}

\* slots[name] = i
PropSet(v, name, i) ==
    [v EXCEPT !.map = [n \in DOMAIN v.map \cup {name} |->
                          IF n = name THEN i ELSE v.map[n]]]

\* delete slots[name]
PropDelete(v, name) ==
    [v EXCEPT !.map = [n \in DOMAIN v.map \ {name} |-> v.map[n]]]

(***************************************************************************)
(* ports.ts                                                                *)
(***************************************************************************)
loadSlots(file) ==
    IF file.state = "absent" THEN JsObject(EmptyMap)
    ELSE IF file.state = "text" THEN JsObject(EmptyMap)
    ELSE JSONparse(file)

saveSlots(slots) == JSONstringify(slots)

\* The result of a registry call: threw is "none", "TypeError" or "NoSlots";
\* val is the set holding the returned number ({} for null / nothing);
\* file is the registry file after the call.
Result(threw, val, file) == [threw |-> threw, val |-> val, file |-> file]

\* the scan running downwards from max (for (i = max; i >= 1; i--))
LastUnused(used, from, max) ==
    IF \E i \in from..max : i \notin used
    THEN CHOOSE i \in from..max :
            i \notin used /\ \A j \in (i + 1)..max : j \in used
    ELSE 0

\* the scan running one past the end (i <= maxWorktrees + 1)
FirstUnusedOnePast(used, from, max) ==
    IF \E i \in from..(max + 1) : i \notin used
    THEN CHOOSE i \in from..(max + 1) :
            i \notin used /\ \A j \in from..(i - 1) : j \in used
    ELSE 0

\* first i in from..max that is not in used; 0 when the loop runs out
FirstUnused(used, from, max) ==
    IF \E i \in from..max : i \notin used
    THEN CHOOSE i \in from..max :
            i \notin used /\ \A j \in from..(i - 1) : j \in used
    ELSE 0

\* usedSlots built from Object.keys: no number is ever found in it
assignSlotKeysAsUsed(file, worktreeName, maxWorktrees) ==
    LET slots == loadSlots(file)
        i == FirstUnused({}, 1, maxWorktrees)
    IN  IF slots.kind = "null" THEN Result("TypeError", {}, file)
        ELSE IF PropGet(slots, worktreeName) # {}
        THEN Result("none", PropGet(slots, worktreeName), file)
        ELSE IF i = 0 THEN Result("NoSlots", {}, file)
        ELSE IF slots.kind = "prim" THEN Result("TypeError", {}, file)
        ELSE Result("none", {i}, saveSlots(PropSet(slots, worktreeName, i)))

\* without the early return for a name that already has a slot
assignSlotNoLookup(file, worktreeName, maxWorktrees) ==
    LET slots == loadSlots(file)
        i == FirstUnused(ObjectValues(slots), 1, maxWorktrees)
    IN  IF slots.kind = "null" THEN Result("TypeError", {}, file)
        ELSE IF i = 0 THEN Result("NoSlots", {}, file)
        ELSE IF slots.kind = "prim" THEN Result("TypeError", {}, file)
        ELSE Result("none", {i}, saveSlots(PropSet(slots, worktreeName, i)))

assignSlot(file, worktreeName, maxWorktrees) ==
    LET slots == loadSlots(file)
        i == FirstUnused(ObjectValues(slots), 1, maxWorktrees)
    IN  IF slots.kind = "null" THEN Result("TypeError", {}, file)
        ELSE IF PropGet(slots, worktreeName) # {}
        THEN Result("none", PropGet(slots, worktreeName), file)
        ELSE IF i = 0 THEN Result("NoSlots", {}, file)
        ELSE IF slots.kind = "prim" THEN Result("TypeError", {}, file)
        ELSE Result("none", {i}, saveSlots(PropSet(slots, worktreeName, i)))

\* without the saveSlots call
releaseSlotNoSave(file, worktreeName) ==
    LET slots == loadSlots(file)
    IN  IF slots.kind = "null" THEN Result("TypeError", {}, file)
        ELSE Result("none", {}, file)

\* saving an empty map instead of the map without the name
releaseSlotAll(file, worktreeName) ==
    LET slots == loadSlots(file)
    IN  IF slots.kind = "null" THEN Result("TypeError", {}, file)
        ELSE IF slots.kind = "prim" THEN Result("none", {}, saveSlots(slots))
        ELSE Result("none", {}, saveSlots([slots EXCEPT !.map = EmptyMap]))

releaseSlot(file, worktreeName) ==
    LET slots == loadSlots(file)
    IN  IF slots.kind = "null" THEN Result("TypeError", {}, file)
        ELSE IF slots.kind = "prim" THEN Result("none", {}, saveSlots(slots))
        ELSE Result("none", {}, saveSlots(PropDelete(slots, worktreeName)))

getSlot(file, worktreeName) ==
    LET slots == loadSlots(file)
    IN  IF slots.kind = "null" THEN Result("TypeError", {}, file)
        ELSE Result("none", PropGet(slots, worktreeName), file)

\* the offset added once instead of once per slot
calculateHostPortFlat(basePort, slot, offset) == basePort + slot + offset

calculateHostPort(basePort, slot, offset) == basePort + (slot * offset)

(***************************************************************************)
(* compose.js.  Objects the generator enumerates are their entries in      *)
(* insertion order:                                                        *)
(*   service.ports          <<[name |-> "main", base |-> 3000], ...>>      *)
(*   service.env            <<[key |-> "PORT", value |-> text], ...>>      *)
(*   service.volumes        <<[host |-> "api/src", container |-> ..]>>     *)
(*   service.named_volumes  <<[name |-> "data", mount |-> "/var/lib"]>>    *)
(*   service.depends_on     <<[name |-> "db", condition |-> ".."]>>        *)
(* An optional property is a field the record has or has not.              *)
(*                                                                         *)
(* The text of an environment value is its sequence of tokens, so that the *)
(* regular expression of the resolver can be matched on it:                *)
(*   Word(s)   a maximal run of \w characters (letters, digits, _)         *)
(*   Other(s)  "{", "}" or "." alone, or a run of other characters that    *)
(*             holds none of these three and at least one non-\w character *)
(*   Num(n)    the decimal digits String(n) gives                          *)
(* No two Words are adjacent in the text of a catalog.                     *)
(***************************************************************************)
Word(s) == [k |-> "w", s |-> s, n |-> 0]
Other(s) == [k |-> "o", s |-> s, n |-> 0]
Num(n) == [k |-> "n", s |-> "", n |-> n]

Has(obj, field) == field \in DOMAIN obj

\* obj[key] = val on an object kept as its entries [name, val]: an own key
\* keeps its place, a new key is added last
ObjectSet(entries, key, val) ==
    IF \E i \in DOMAIN entries : entries[i].name = key
    THEN [i \in DOMAIN entries |->
            IF entries[i].name = key THEN [name |-> key, val |-> val]
            ELSE entries[i]]
    ELSE Append(entries, [name |-> key, val |-> val])

\* the mapping string `${hostPort}:${basePort}`, kept as its two numbers
PortPair(hostPort, basePort) == [host |-> hostPort, container |-> basePort]

\* the mount string `${source}:${target}`, kept as its two parts
VolumePair(source, target) == [source |-> source, target |-> target]

\* svc.image, or svc.build when only a path is given
svcImage(service) ==
    IF Has(service, "image") THEN [image |-> service.image]
    ELSE IF Has(service, "path")
    THEN [build |-> [context |-> "./" \o service.path,
                     dockerfile |-> IF Has(service, "dockerfile")
                                    THEN service.dockerfile ELSE "Dockerfile"]]
    ELSE EmptyMap

svcCommand(service) ==
    IF Has(service, "command") THEN [command |-> service.command] ELSE EmptyMap

\* the host side computed from the slot with an offset of zero
svcPortsUnshifted(service, slot, offset) ==
    IF Has(service, "ports") /\ Len(service.ports) > 0
    THEN [ports |-> [i \in DOMAIN service.ports |->
                       PortPair(calculateHostPort(service.ports[i].base, slot, 0),
                                service.ports[i].base)]]
    ELSE EmptyMap

\* the container side shifted with the host side
svcPortsBothShifted(service, slot, offset) ==
    IF Has(service, "ports") /\ Len(service.ports) > 0
    THEN [ports |-> [i \in DOMAIN service.ports |->
                       PortPair(calculateHostPort(service.ports[i].base, slot, offset),
                                calculateHostPort(service.ports[i].base, slot, offset))]]
    ELSE EmptyMap

\* svc.ports: Object.entries(service.ports).map(...)
svcPorts(service, slot, offset) ==
    IF Has(service, "ports") /\ Len(service.ports) > 0
    THEN [ports |-> [i \in DOMAIN service.ports |->
                       PortPair(calculateHostPort(service.ports[i].base, slot, offset),
                                service.ports[i].base)]]
    ELSE EmptyMap

\* /\{(\w+)\.(\w+)\.host\}/ matches the text at token i
MatchAt(text, i) ==
    /\ i + 6 <= Len(text)
    /\ text[i] = Other("{")
    /\ text[i + 1].k = "w"
    /\ text[i + 2] = Other(".")
    /\ text[i + 3].k = "w"
    /\ text[i + 4] = Other(".")
    /\ text[i + 5] = Word("host")
    /\ text[i + 6] = Other("}")

\* config.services.find(s => s.name === svcName): the services found, at
\* most the first one
find(services, svcName) ==
    LET hits == {i \in DOMAIN services : services[i].name = svcName}
    IN  IF hits = {} THEN {}
        ELSE {services[CHOOSE i \in hits : \A j \in hits : i <= j]}

\* ports[portName]: the base ports under that name, none when undefined
portOf(ports, portName) ==
    {ports[i].base : i \in {j \in DOMAIN ports : ports[j].name = portName}}

\* targetSvc?.ports[portName] reads a property of undefined
replacerThrows(svcName, portName, cfg) ==
    \E targetSvc \in find(cfg.services, svcName) : ~Has(targetSvc, "ports")

\* a miss replaced by nothing
replacerDropsMiss(match, svcName, portName, cfg, slot, offset) ==
    LET hit == UNION {portOf(t.ports, portName) : t \in find(cfg.services, svcName)}
    IN  IF hit # {}
        THEN <<Num(calculateHostPort(CHOOSE b \in hit : TRUE, slot, offset))>>
        ELSE <<>>

\* the host port computed for slot 0 whatever the slot
replacerMainSlot(match, svcName, portName, cfg, slot, offset) ==
    LET hit == UNION {portOf(t.ports, portName) : t \in find(cfg.services, svcName)}
    IN  IF hit # {}
        THEN <<Num(calculateHostPort(CHOOSE b \in hit : TRUE, 0, offset))>>
        ELSE match

\* the replacer callback of resolved.replace
replacer(match, svcName, portName, cfg, slot, offset) ==
    LET hit == UNION {portOf(t.ports, portName) : t \in find(cfg.services, svcName)}
    IN  IF hit # {}
        THEN <<Num(calculateHostPort(CHOOSE b \in hit : TRUE, slot, offset))>>
        ELSE match

\* only the first match replaced (the expression without its g flag)
RECURSIVE replaceFirst(_, _, _, _, _)
replaceFirst(text, i, cfg, slot, offset) ==
    IF i > Len(text) THEN <<>>
    ELSE IF MatchAt(text, i)
    THEN replacer(SubSeq(text, i, i + 6), text[i + 1].s, text[i + 3].s,
                  cfg, slot, offset)
         \o SubSeq(text, i + 7, Len(text))
    ELSE <<text[i]>> \o replaceFirst(text, i + 1, cfg, slot, offset)

\* value.replace(/.../g, replacer) from token i on: every match, left to
\* right, the search going on after the end of the match
RECURSIVE replace(_, _, _, _, _)
replace(text, i, cfg, slot, offset) ==
    IF i > Len(text) THEN <<>>
    ELSE IF MatchAt(text, i)
    THEN replacer(SubSeq(text, i, i + 6), text[i + 1].s, text[i + 3].s,
                  cfg, slot, offset)
         \o replace(text, i + 7, cfg, slot, offset)
    ELSE <<text[i]>> \o replace(text, i + 1, cfg, slot, offset)

\* some match of the text makes the replacer throw
replaceThrows(text, cfg) ==
    \E i \in DOMAIN text :
        /\ MatchAt(text, i)
        /\ replacerThrows(text[i + 1].s, text[i + 3].s, cfg)

\* svc.environment: every value of service.env resolved
svcEnvironment(service, cfg, slot, offset) ==
    IF Has(service, "env")
    THEN [environment |->
            [i \in DOMAIN service.env |->
               [key |-> service.env[i].key,
                value |-> replace(service.env[i].value, 1, cfg, slot, offset)]]]
    ELSE EmptyMap

svcEnvironmentThrows(service, cfg) ==
    /\ Has(service, "env")
    /\ \E i \in DOMAIN service.env : replaceThrows(service.env[i].value, cfg)

\* every environment given the bare name
qualifiedNameBare(volumeName, isMain, worktreeName) == volumeName

qualifiedName(volumeName, isMain, worktreeName) ==
    IF isMain THEN volumeName ELSE "wt-" \o worktreeName \o "-" \o volumeName

\* the qualified names of the service's named volumes, in order
namedVolumes(service, isMain, worktreeName) ==
    IF Has(service, "named_volumes")
    THEN [i \in DOMAIN service.named_volumes |->
            qualifiedName(service.named_volumes[i].name, isMain, worktreeName)]
    ELSE <<>>

\* svcVolumes: the bind mounts, then the named volumes
svcVolumes(service, isMain, worktreeName) ==
    LET binds == IF Has(service, "volumes")
                 THEN [i \in DOMAIN service.volumes |->
                         VolumePair("./" \o service.volumes[i].host,
                                    service.volumes[i].container)]
                 ELSE <<>>
        named == [i \in DOMAIN namedVolumes(service, isMain, worktreeName) |->
                    VolumePair(namedVolumes(service, isMain, worktreeName)[i],
                               service.named_volumes[i].mount)]
        all == binds \o named
    IN  IF Len(all) > 0 THEN [volumes |-> all] ELSE EmptyMap

\* x || d for an optional property of the healthcheck
OrDefault(obj, field, falsy, d) ==
    IF Has(obj, field) /\ obj[field] # falsy THEN obj[field] ELSE d

\* svc.healthcheck: the HTTP probe on the container's main port, else the
\* shell probe, else none
svcHealthcheck(service) ==
    IF ~Has(service, "healthcheck") THEN EmptyMap
    ELSE LET hc == service.healthcheck
             main == IF Has(service, "ports") THEN portOf(service.ports, "main")
                     ELSE {}
             timing == [interval |-> OrDefault(hc, "interval", "", "10s"),
                        retries |-> OrDefault(hc, "retries", 0, 5),
                        start_period |-> OrDefault(hc, "start_period", "", "30s")]
         IN  IF Has(hc, "path") /\ hc.path # "" /\ main # {}
             THEN [healthcheck |->
                     [test |-> <<"CMD", "curl", "-f">>,
                      url |-> [host |-> "localhost",
                               port |-> CHOOSE b \in main : TRUE,
                               path |-> hc.path]] @@ timing]
             ELSE IF Has(hc, "test") /\ hc.test # ""
             THEN [healthcheck |->
                     [test |-> <<"CMD-SHELL", hc.test>>] @@ timing]
             ELSE EmptyMap

\* svc.depends_on: { depName: { condition } }
svcDependsOn(service) ==
    IF Has(service, "depends_on")
    THEN [depends_on |->
            [i \in DOMAIN service.depends_on |->
               [name |-> service.depends_on[i].name,
                val |-> [condition |-> service.depends_on[i].condition]]]]
    ELSE EmptyMap

\* the body of the loop over config.services: one service's runtime spec
generateComposeSvc(service, options) ==
    LET worktreeName == options.worktreeName
        slot == options.slot
        cfg == options.config
        offset == cfg.ports.offset
        isMain == slot = 0
        prefix == IF isMain THEN cfg.project.name ELSE "wt-" \o worktreeName
        networkName == prefix
    IN  [container_name |-> prefix \o "-" \o service.name]
        @@ svcImage(service)
        @@ svcCommand(service)
        @@ svcPorts(service, slot, offset)
        @@ svcEnvironment(service, cfg, slot, offset)
        @@ svcVolumes(service, isMain, worktreeName)
        @@ svcHealthcheck(service)
        @@ svcDependsOn(service)
        @@ [networks |-> <<networkName>>]

\* volumes[qualifiedName] = {} for every named volume of the services
RECURSIVE declareVolumes(_, _)
declareVolumes(volumes, names) ==
    IF names = <<>> THEN volumes
    ELSE declareVolumes(ObjectSet(volumes, Head(names), EmptyMap), Tail(names))

\* one declaration pushed per reference
RECURSIVE topVolumesPerReference(_, _, _)
topVolumesPerReference(services, isMain, worktreeName) ==
    IF services = <<>> THEN <<>>
    ELSE [i \in DOMAIN namedVolumes(Head(services), isMain, worktreeName) |->
            [name |-> namedVolumes(Head(services), isMain, worktreeName)[i],
             val |-> EmptyMap]]
         \o topVolumesPerReference(Tail(services), isMain, worktreeName)

\* the volumes object after the loop over the services
RECURSIVE topVolumes(_, _, _)
topVolumes(services, isMain, worktreeName) ==
    IF services = <<>> THEN <<>>
    ELSE declareVolumes(
             topVolumes(SubSeq(services, 1, Len(services) - 1), isMain, worktreeName),
             namedVolumes(services[Len(services)], isMain, worktreeName))

\* the services object after the loop: services[service.name] = svc
RECURSIVE composeServices(_, _)
composeServices(services, options) ==
    IF services = <<>> THEN <<>>
    ELSE ObjectSet(composeServices(SubSeq(services, 1, Len(services) - 1), options),
                   services[Len(services)].name,
                   generateComposeSvc(services[Len(services)], options))

\* generateCompose raises (a TypeError of the resolver)
generateComposeThrows(options) ==
    \E i \in DOMAIN options.config.services :
        svcEnvironmentThrows(options.config.services[i], options.config)

generateCompose(options) ==
    LET worktreeName == options.worktreeName
        slot == options.slot
        cfg == options.config
        isMain == slot = 0
        prefix == IF isMain THEN cfg.project.name ELSE "wt-" \o worktreeName
        networkName == prefix
        services == composeServices(cfg.services, options)
        volumes == topVolumes(cfg.services, isMain, worktreeName)
    IN  [version |-> "3.8",
         services |-> services,
         networks |-> <<[name |-> networkName, val |-> [driver |-> "bridge"]]>>]
        @@ (IF Len(volumes) > 0 THEN [volumes |-> volumes] ELSE EmptyMap)

\* every host port a definition publishes
HostPorts(compose) ==
    UNION {{compose.services[i].val.ports[j].host :
               j \in DOMAIN compose.services[i].val.ports} :
           i \in {k \in DOMAIN compose.services : Has(compose.services[k].val, "ports")}}

(***************************************************************************)
(* State.                                                                  *)
(*   config        the MonorepoConfig of the invocation (worktree.toml)    *)
(*   slotsFile     {projectRoot}/{worktree_dir}/.slots.json                *)
(*   last, prev    the last call and the one before it: its arguments,     *)
(*                 its outcome and the state it started from               *)
(*   held          per name, the slot its last assignSlot returned, {}     *)
(*                 once the name was released                              *)
(*   worktrees     the names whose storage directory (checkout) exists     *)
(*                 under worktree_dir                                      *)
(*   composeFiles  per name, the docker-compose.wt-{name}.yml in its       *)
(*                 storage directory: {} or the set holding the definition *)
(*   generated     per slot, the definition generateCompose returned       *)
(***************************************************************************)
VARIABLES config, slotsFile, last, prev, held,
          worktrees, composeFiles, generated

vars == <<config, slotsFile, last, prev, held,
          worktrees, composeFiles, generated>>

\* DEFAULT_CONFIG of config.js, with the port policy and the catalog given
DefaultConfig(offset, max_worktrees, services) ==
    [project |-> [name |-> "project", worktree_dir |-> ".worktrees"],
     ports |-> [offset |-> offset, max_worktrees |-> max_worktrees],
     services |-> services]

DefaultOffset == 1000

NoCall ==
    [op |-> "none", name |-> "", threw |-> "none", val |-> {},
     pre |-> AbsentFile, loaded |-> JsObject(EmptyMap), held |-> {}]

(***************************************************************************)
(* SpecReg / SpecCorrupt: sequential registry calls on one file.           *)
(***************************************************************************)
RegCall(op, n, r) ==
    /\ prev' = last
    /\ last' = [op |-> op, name |-> n, threw |-> r.threw, val |-> r.val,
                pre |-> slotsFile, loaded |-> loadSlots(slotsFile),
                held |-> held[n]]
    /\ slotsFile' = r.file
    /\ UNCHANGED <<config, worktrees, composeFiles, generated>>

Assign(n) ==
    LET r == assignSlot(slotsFile, n, config.ports.max_worktrees)
    IN  /\ RegCall("assign", n, r)
        /\ held' = [held EXCEPT ![n] = IF r.threw = "none" THEN r.val ELSE @]

Release(n) ==
    /\ RegCall("release", n, releaseSlot(slotsFile, n))
    /\ held' = [held EXCEPT ![n] = {}]

Get(n) ==
    /\ RegCall("get", n, getSlot(slotsFile, n))
    /\ UNCHANGED held

InitOther ==
    /\ last = NoCall
    /\ prev = NoCall
    /\ held = [n \in Names |-> {}]
    /\ worktrees = {}
    /\ composeFiles = [n \in Names |-> {}]
    /\ generated = [s \in {} |-> 0]

InitReg ==
    /\ config \in {DefaultConfig(DefaultOffset, m, <<>>) : m \in 1..MaxSlots}
    /\ slotsFile \in {AbsentFile, JSONstringify(JsObject(EmptyMap))}
    /\ InitOther

\* what a registry file may hold when it was not written by saveSlots
CorruptFiles ==
    {GarbageFile, JSONstringify(JsNull), JSONstringify(JsPrim),
     JSONstringify(JsArray(<<>>, EmptyMap)), JSONstringify(JsArray(<<1>>, EmptyMap))}

InitCorrupt ==
    /\ config \in {DefaultConfig(DefaultOffset, m, <<>>) : m \in 1..MaxSlots}
    /\ slotsFile \in {AbsentFile} \cup CorruptFiles
    /\ InitOther

NextReg ==
    \/ \E n \in Names : Assign(n)
    \/ \E n \in Names : Release(n)
    \/ \E n \in Names : Get(n)

SpecReg == InitReg /\ [][NextReg]_vars

SpecCorrupt == InitCorrupt /\ [][NextReg]_vars

\* the persisted SlotMap and the configured number of slots
Persisted == slotsFile.map
MaxW == config.ports.max_worktrees
Full(m) == \A i \in 1..MaxW : i \in Range(m)

\* m with the entry name -> v added, and m without the entry of name
Plus(m, name, v) == [n \in DOMAIN m \cup {name} |-> IF n = name THEN v ELSE m[n]]
Minus(m, name) == [n \in DOMAIN m \ {name} |-> m[n]]

\* v is the smallest value of 1..MaxW that m does not use
SmallestFree(m, v) ==
    /\ v \in 1..MaxW
    /\ v \notin Range(m)
    /\ \A j \in 1..MaxW : j \notin Range(m) => v <= j

(***************************************************************************)
(* C2: starting from an empty or absent registry file, after any sequence  *)
(* of assign and release calls the persisted SlotMap is a JSON object that *)
(* maps names to pairwise distinct integers of 1..maxSlots; 0 is never     *)
(* stored.                                                                 *)
(***************************************************************************)
C2_SlotMapWellFormed ==
    /\ slotsFile.state = "json" => slotsFile.json = "object"
    /\ DOMAIN Persisted \subseteq Names
    /\ \A a, b \in DOMAIN Persisted : a # b => Persisted[a] # Persisted[b]
    /\ \A a \in DOMAIN Persisted : Persisted[a] \in 1..MaxW
    /\ \A a \in DOMAIN Persisted : Persisted[a] # 0

C2_Witness ==
    /\ Cardinality(DOMAIN Persisted) = 2
    /\ last.op = "assign" /\ last.name \notin DOMAIN last.pre.map
    /\ prev.op = "release" /\ prev.name \in DOMAIN prev.pre.map

(***************************************************************************)
(* C3: assign of a name without an entry, while some value of 1..maxSlots  *)
(* is unused, returns the smallest unused value, which no other name       *)
(* holds, and the persisted map becomes the previous map plus exactly the  *)
(* entry name -> that value.                                               *)
(***************************************************************************)
C3_AssignLowestFree ==
    (/\ last.op = "assign"
     /\ last.name \notin DOMAIN last.pre.map
     /\ ~Full(last.pre.map))
    => /\ last.threw = "none"
       /\ \E v \in 1..MaxW :
            /\ last.val = {v}
            /\ SmallestFree(last.pre.map, v)
            /\ \A n \in DOMAIN last.pre.map : last.pre.map[n] # v
            /\ slotsFile.state = "json" /\ slotsFile.json = "object"
            /\ Persisted = Plus(last.pre.map, last.name, v)

\* slot 1 is in use and slot 2 is handed out
C3_Witness ==
    /\ last.op = "assign"
    /\ last.name \notin DOMAIN last.pre.map
    /\ last.pre.map # EmptyMap
    /\ last.val = {2}

(***************************************************************************)
(* C4: assign is idempotent: an assign of a name that an earlier assign    *)
(* gave a slot, with no release of that name since (other names may have   *)
(* been assigned or released), returns that same slot and leaves the       *)
(* persisted SlotMap unchanged.                                            *)
(***************************************************************************)
C4_AssignIdempotent ==
    (last.op = "assign" /\ last.held # {})
    => /\ last.threw = "none"
       /\ last.val = last.held
       /\ slotsFile = last.pre

\* the repeated assign follows a call on another name
C4_Witness ==
    /\ last.op = "assign" /\ last.held # {}
    /\ prev.op \in {"assign", "release"} /\ prev.name # last.name
    /\ prev.pre # last.pre

(***************************************************************************)
(* C5: with maxSlots names holding all of 1..maxSlots, assign of a further *)
(* name fails with the no-available-slots error and the persisted SlotMap  *)
(* is the one before the call.                                             *)
(***************************************************************************)
C5_ExhaustedLeavesRegistry ==
    (/\ last.op = "assign"
     /\ Full(last.pre.map)
     /\ Cardinality(DOMAIN last.pre.map) = MaxW
     /\ last.name \notin DOMAIN last.pre.map)
    => /\ last.threw = "NoSlots"
       /\ last.val = {}
       /\ slotsFile = last.pre
       /\ Persisted = last.pre.map

C5_Witness ==
    /\ last.op = "assign"
    /\ Full(last.pre.map)
    /\ last.name \notin DOMAIN last.pre.map
    /\ last.threw = "NoSlots"

(***************************************************************************)
(* C6: on a full registry, release of an assigned name followed at once by *)
(* assign of an unassigned name gives that name exactly the vacated slot;  *)
(* with maxSlots = 1 this is slot 1.                                       *)
(***************************************************************************)
C6_ReleaseThenAssignReuses ==
    (/\ prev.op = "release"
     /\ Full(prev.pre.map)
     /\ prev.name \in DOMAIN prev.pre.map
     /\ last.op = "assign"
     /\ last.name \notin DOMAIN last.pre.map)
    => /\ last.threw = "none"
       /\ last.val = {prev.pre.map[prev.name]}
       /\ MaxW = 1 => last.val = {1}

\* the vacated slot is not the lowest one
C6_Witness ==
    /\ prev.op = "release"
    /\ Full(prev.pre.map)
    /\ prev.name \in DOMAIN prev.pre.map
    /\ last.op = "assign"
    /\ last.name \notin DOMAIN last.pre.map
    /\ last.name # prev.name
    /\ last.val = {2}

(***************************************************************************)
(* C7: release removes the entry of the name when there is one and is a    *)
(* no-op raising no error when there is none; every other entry of the     *)
(* persisted SlotMap is unchanged and get of the name then returns absent. *)
(***************************************************************************)
C7_ReleaseFrame ==
    last.op = "release"
    => /\ last.threw = "none"
       /\ Persisted = Minus(last.pre.map, last.name)
       /\ \A n \in DOMAIN last.pre.map \ {last.name} :
            n \in DOMAIN Persisted /\ Persisted[n] = last.pre.map[n]
       /\ getSlot(slotsFile, last.name).threw = "none"
       /\ getSlot(slotsFile, last.name).val = {}

\* an entry is removed and another one stays
C7_Witness ==
    /\ last.op = "release"
    /\ last.name \in DOMAIN last.pre.map
    /\ Persisted # EmptyMap

(***************************************************************************)
(* C8: a registry file that is absent, unparsable, or parsable JSON that   *)
(* is not an object is loaded as the empty mapping, and assign, release    *)
(* and get on it end as they do on an empty registry, raising no error.    *)
(***************************************************************************)
NotASlotMap(f) ==
    \/ f.state \in {"absent", "text"}
    \/ f.state = "json" /\ f.json # "object"

\* the call `c` made on an empty registry instead
OnEmpty(c) ==
    CASE c.op = "assign" -> assignSlot(AbsentFile, c.name, MaxW)
      [] c.op = "release" -> releaseSlot(AbsentFile, c.name)
      [] OTHER -> getSlot(AbsentFile, c.name)

C8_CorruptIsEmpty ==
    (last.op # "none" /\ NotASlotMap(last.pre))
    => /\ last.loaded = JsObject(EmptyMap)
       /\ last.threw = "none"
       /\ last.threw = OnEmpty(last).threw
       /\ last.val = OnEmpty(last).val
       /\ slotsFile = OnEmpty(last).file

(***************************************************************************)
(* SpecPort: calculateHostPort applied to drawn inputs.                    *)
(***************************************************************************)
BasePorts == {0, 80, 3000, 4000}
Offsets == {0, 1, 1000}
GenSlots == 0..MaxGenSlot

HostPort(b, s, o) ==
    /\ prev' = last
    /\ last' = [op |-> "hostPort", basePort |-> b, slot |-> s, offset |-> o,
                val |-> calculateHostPort(b, s, o)]
    /\ UNCHANGED <<config, slotsFile, held, worktrees, composeFiles, generated>>

NoPortCall ==
    [op |-> "none", basePort |-> 0, slot |-> 0, offset |-> 0, val |-> 0]

InitPort ==
    /\ config = DefaultConfig(DefaultOffset, MaxSlots, <<>>)
    /\ slotsFile = AbsentFile
    /\ last = NoPortCall
    /\ prev = NoPortCall
    /\ held = [n \in Names |-> {}]
    /\ worktrees = {}
    /\ composeFiles = [n \in Names |-> {}]
    /\ generated = [s \in {} |-> 0]

NextPort == \E b \in BasePorts, s \in GenSlots, o \in Offsets : HostPort(b, s, o)

SpecPort == InitPort /\ [][NextPort]_vars

(***************************************************************************)
(* C9: hostPort(basePort, slot, offset) = basePort + slot * offset on all  *)
(* drawn non-negative inputs; slot 0 gives basePort; for a fixed basePort  *)
(* and offset > 0 a larger slot gives a strictly larger port;              *)
(* hostPort(3000, 2, 1000) = 5000.                                         *)
(***************************************************************************)
C9_HostPortArithmetic ==
    last.op = "hostPort"
    => /\ last.val = last.basePort + last.slot * last.offset
       /\ last.slot = 0 => last.val = last.basePort
       /\ (last.basePort = 3000 /\ last.slot = 2 /\ last.offset = 1000)
            => last.val = 5000
       /\ (/\ prev.op = "hostPort"
           /\ prev.basePort = last.basePort
           /\ prev.offset = last.offset
           /\ last.offset > 0)
          => /\ prev.slot < last.slot => prev.val < last.val
             /\ prev.slot > last.slot => prev.val > last.val

C9_Witness ==
    /\ last.op = "hostPort" /\ prev.op = "hostPort"
    /\ last.basePort = 3000 /\ last.slot = 2 /\ last.offset = 1000
    /\ prev.basePort = 3000 /\ prev.slot = 1 /\ prev.offset = 1000
    /\ last.val = 5000

(***************************************************************************)
(* SpecGen: generateCompose applied to a drawn catalog, offset and slots.  *)
(***************************************************************************)
Port(name, base) == [name |-> name, base |-> base]
Service(name, ports) == [name |-> name, ports |-> ports]

\* the characters of a service or port name, as tokens
Spell(name) ==
    IF name = "my-api" THEN <<Word("my"), Other("-"), Word("api")>>
    ELSE <<Word(name)>>

\* the parts an environment value is written from: literal text, and
\* references {svc.port.host}
Lit(toks) == [t |-> "lit", toks |-> toks, svc |-> "", port |-> ""]
Ref(svc, port) == [t |-> "ref", toks |-> <<>>, svc |-> svc, port |-> port]

RefText(svc, port) ==
    <<Other("{")>> \o Spell(svc) \o <<Other(".")>> \o Spell(port)
    \o <<Other("."), Word("host"), Other("}")>>

RECURSIVE Render(_)
Render(parts) ==
    IF parts = <<>> THEN <<>>
    ELSE (IF Head(parts).t = "lit" THEN Head(parts).toks
          ELSE RefText(Head(parts).svc, Head(parts).port))
         \o Render(Tail(parts))

Url == Lit(<<Word("http"), Other("://"), Word("localhost"), Other(":")>>)

\* the environment values of the sample services, as parts
EnvTexts ==
    {<<Lit(<<Word("3000")>>)>>,
     <<Url, Ref("api", "main")>>,
     <<Url, Ref("api", "main"), Lit(<<Other(",")>>), Url, Ref("api", "main"),
       Lit(<<Other(",")>>), Ref("db", "main")>>,
     <<Ref("nosvc", "main"), Lit(<<Other(" ")>>), Ref("api", "admin")>>,
     <<Url, Ref("api", "admin"), Lit(<<Other("/")>>), Ref("web", "debug")>>,
     <<Url, Ref("my-api", "main")>>,
     <<Url, Ref("web", "debug")>>,
     <<Lit(<<Other("{"), Word("api"), Other("."), Word("main"), Other("."),
             Word("port"), Other("}")>>)>>}

Env(key, parts) == [key |-> key, value |-> Render(parts)]

SampleServices ==
    {Service("api", <<Port("main", 3000)>>)
       @@ [path |-> "api", command |-> "npm run dev",
           env |-> <<Env("PORT", <<Lit(<<Word("3000")>>)>>),
                     Env("SELF", <<Url, Ref("api", "main")>>)>>,
           healthcheck |-> [path |-> "/health", retries |-> 3],
           volumes |-> <<[host |-> "api/src", container |-> "/app/src:ro"]>>,
           named_volumes |-> <<[name |-> "data", mount |-> "/data"]>>],
     Service("web", <<Port("main", 4000), Port("debug", 3001)>>)
       @@ [path |-> "web", dockerfile |-> "Dockerfile.dev",
           env |-> <<Env("API_URLS",
                         <<Url, Ref("api", "main"), Lit(<<Other(",")>>), Url,
                           Ref("api", "main"), Lit(<<Other(",")>>),
                           Ref("db", "main")>>),
                     Env("TYPO",
                         <<Ref("nosvc", "main"), Lit(<<Other(" ")>>),
                           Ref("api", "admin")>>),
                     Env("ADMIN",
                         <<Url, Ref("api", "admin"), Lit(<<Other("/")>>),
                           Ref("web", "debug")>>),
                     Env("GATEWAY", <<Url, Ref("my-api", "main")>>),
                     Env("RAW",
                         <<Lit(<<Other("{"), Word("api"), Other("."),
                                 Word("main"), Other("."), Word("port"),
                                 Other("}")>>)>>)>>,
           depends_on |-> <<[name |-> "api", condition |-> "service_healthy"]>>,
           named_volumes |-> <<[name |-> "data", mount |-> "/srv/data"],
                               [name |-> "cache", mount |-> "/srv/cache"]>>],
     Service("db", <<Port("main", 5432)>>)
       @@ [image |-> "postgres:16",
           healthcheck |-> [test |-> "pg_isready", interval |-> "5s"],
           named_volumes |-> <<[name |-> "data", mount |-> "/var/lib/data"]>>],
     Service("my-api", <<Port("main", 8080)>>)
       @@ [image |-> "gateway"],
     Service("worker", <<>>)
       @@ [path |-> "worker",
           env |-> <<Env("WEB", <<Url, Ref("web", "debug")>>)>>],
     Service("cache", <<Port("main", 6379)>>)
       @@ [image |-> "cache",
           healthcheck |-> [path |-> "/ping", test |-> "cache-cli ping",
                            retries |-> 0]],
     Service("queue", <<Port("amqp", 5672)>>)
       @@ [image |-> "queue",
           healthcheck |-> [path |-> "/ready", test |-> "queue-cli status",
                            start_period |-> "5s"]],
     Service("job", <<Port("admin", 9000)>>)
       @@ [path |-> "job", healthcheck |-> [path |-> "/up"]]}

\* catalogs of one or two services with distinct names
Catalogs ==
    {<<a>> : a \in SampleServices}
    \cup {<<p[1], p[2]>> :
            p \in {q \in SampleServices \X SampleServices : q[1] # q[2]}}

\* the row without the shift of the slot
portRowUnshifted(service, port, slot, offset) ==
    [service |-> service.name, port |-> port.name, base |-> port.base,
     host |-> port.base]

\* results.push({ service, port, base, host }) of getServicePorts
portRow(service, port, slot, offset) ==
    [service |-> service.name, port |-> port.name, base |-> port.base,
     host |-> port.base + (slot * offset)]

\* getServicePorts: a row for every declared port, the services and their
\* ports in the order of the catalog (services[1..n] here)
RECURSIVE servicePorts(_, _, _, _)
servicePorts(services, n, slot, offset) ==
    IF n = 0 THEN <<>>
    ELSE servicePorts(services, n - 1, slot, offset)
         \o [j \in DOMAIN services[n].ports |->
               portRow(services[n], services[n].ports[j], slot, offset)]

getServicePorts(cfg, slot) ==
    servicePorts(cfg.services, Len(cfg.services), slot, cfg.ports.offset)

\* generateCompose for a slot, and the port table printed for it
Generate(name, slot) ==
    /\ generated' =
         [s \in DOMAIN generated \cup {slot} |->
            IF s = slot
            THEN [worktreeName |-> name,
                  threw |-> generateComposeThrows([worktreeName |-> name,
                                                   slot |-> slot,
                                                   config |-> config]),
                  compose |-> generateCompose([worktreeName |-> name,
                                               slot |-> slot,
                                               config |-> config]),
                  table |-> getServicePorts(config, slot)]
            ELSE generated[s]]
    /\ UNCHANGED <<config, slotsFile, last, prev, held, worktrees,
                   composeFiles>>

InitGen ==
    /\ config \in {DefaultConfig(o, MaxGenSlot, c) : o \in Offsets, c \in Catalogs}
    /\ slotsFile = AbsentFile
    /\ InitOther

NextGen == \E name \in Names, slot \in GenSlots : Generate(name, slot)

SpecGen == InitGen /\ [][NextGen]_vars

\* the base ports the catalog declares
CatalogBasePorts ==
    UNION {{config.services[i].ports[j].base : j \in DOMAIN config.services[i].ports} :
           i \in DOMAIN config.services}

\* no declared base port is another one shifted by 1..MaxGenSlot offsets
NoShiftedBasePort ==
    \A b1 \in CatalogBasePorts, b2 \in CatalogBasePorts, k \in 1..MaxGenSlot :
        b1 + k * config.ports.offset # b2

(***************************************************************************)
(* C10 as stated: for every catalog, every offset > 0 and every two        *)
(* distinct slots, the host ports generated for the two slots are          *)
(* disjoint.                                                               *)
(***************************************************************************)
C10_DisjointHostPorts ==
    config.ports.offset > 0
    => \A s1 \in DOMAIN generated, s2 \in DOMAIN generated :
          s1 # s2 =>
            HostPorts(generated[s1].compose) \cap HostPorts(generated[s2].compose) = {}

(***************************************************************************)
(* C10 amended: the host ports generated for two distinct slots are        *)
(* disjoint for every offset > 0 and every catalog in which no base port   *)
(* equals another base port plus k * offset for a k in 1..maxSlots.        *)
(***************************************************************************)
C10_DisjointHostPortsAmended ==
    (config.ports.offset > 0 /\ NoShiftedBasePort)
    => \A s1 \in DOMAIN generated, s2 \in DOMAIN generated :
          s1 # s2 =>
            HostPorts(generated[s1].compose) \cap HostPorts(generated[s2].compose) = {}

\* two services with three ports, generated at slots 0 and 2
C10_Witness ==
    /\ config.ports.offset = 1000
    /\ NoShiftedBasePort
    /\ Cardinality(CatalogBasePorts) = 3
    /\ {0, 2} \subseteq DOMAIN generated
    /\ HostPorts(generated[2].compose) # {}

\* the runtime spec a definition holds for the service of that name
SvcOut(compose, name) ==
    LET i == CHOOSE k \in DOMAIN compose.services : compose.services[k].name = name
    IN  compose.services[i].val

\* the pairs the definition emits for a service
PairsOut(compose, name) ==
    IF Has(SvcOut(compose, name), "ports") THEN SvcOut(compose, name).ports
    ELSE <<>>

(***************************************************************************)
(* C11: for every service and every declared port with base port b, the    *)
(* definition generated for a slot holds exactly one host:container pair   *)
(* whose container side is b, its host side is hostPort(b, slot, offset),  *)
(* and the service has as many pairs as declared ports.                    *)
(***************************************************************************)
C11_PortPairs ==
    \A slot \in DOMAIN generated :
        \A i \in DOMAIN config.services :
            LET service == config.services[i]
                pairs == PairsOut(generated[slot].compose, service.name)
            IN  /\ Len(pairs) = Len(service.ports)
                /\ \A j \in DOMAIN service.ports :
                      LET b == service.ports[j].base
                          hits == {k \in DOMAIN pairs : pairs[k].container = b}
                      IN  /\ Cardinality(hits) = 1
                          /\ \A k \in hits :
                                pairs[k].host = b + slot * config.ports.offset

\* a service with two declared ports, generated at slot 2 with offset 1000
C11_Witness ==
    /\ config.ports.offset = 1000
    /\ 2 \in DOMAIN generated
    /\ \E i \in DOMAIN config.services :
          /\ Len(config.services[i].ports) = 2
          /\ Len(PairsOut(generated[2].compose, config.services[i].name)) = 2

\* the parts a catalog value was written from
Parts(value) == CHOOSE parts \in EnvTexts : Render(parts) = value

\* the catalog declares port p of service a
Declares(a, p) ==
    \E i \in DOMAIN config.services :
        /\ config.services[i].name = a
        /\ \E j \in DOMAIN config.services[i].ports :
              config.services[i].ports[j].name = p

BaseOf(a, p) ==
    LET i == CHOOSE k \in DOMAIN config.services : config.services[k].name = a
        j == CHOOSE k \in DOMAIN config.services[i].ports :
                 config.services[i].ports[k].name = p
    IN  config.services[i].ports[j].base

\* the value with every reference to a declared port replaced by its host
\* port at the slot, and every other part as written
RECURSIVE Resolved(_, _)
Resolved(parts, slot) ==
    IF parts = <<>> THEN <<>>
    ELSE LET h == Head(parts)
         IN  (IF h.t = "lit" THEN h.toks
              ELSE IF Declares(h.svc, h.port)
              THEN <<Num(BaseOf(h.svc, h.port) + slot * config.ports.offset)>>
              ELSE RefText(h.svc, h.port))
             \o Resolved(Tail(parts), slot)

\* the environment a definition holds for a service
EnvOut(compose, name) == SvcOut(compose, name).environment

\* the references of a value
Refs(parts) == {parts[i] : i \in {k \in DOMAIN parts : parts[k].t = "ref"}}

(***************************************************************************)
(* C12: a reference {svcA.p.host} to a declared port p of a catalog        *)
(* service svcA, in any environment value of any service, is replaced by   *)
(* hostPort(base of svcA.p, the slot being generated, offset): every       *)
(* occurrence in the value, and every variable of the service.             *)
(***************************************************************************)
C12_ReferencesResolved ==
    \A slot \in DOMAIN generated :
        \A i \in {k \in DOMAIN config.services : Has(config.services[k], "env")} :
            LET service == config.services[i]
                out == EnvOut(generated[slot].compose, service.name)
            IN  /\ Len(out) = Len(service.env)
                /\ \A j \in DOMAIN service.env :
                      /\ out[j].key = service.env[j].key
                      /\ (\E r \in Refs(Parts(service.env[j].value)) :
                              Declares(r.svc, r.port))
                         => out[j].value = Resolved(Parts(service.env[j].value), slot)

\* the places of a text where the tokens of pat stand
Occurrences(pat, text) ==
    {i \in 1..(Len(text) - Len(pat) + 1) : SubSeq(text, i, i + Len(pat) - 1) = pat}

(***************************************************************************)
(* C13: a reference that names a service not in the catalog, or a port the *)
(* named service does not declare, stands in the generated value as in the *)
(* catalog (a value with no other reference is unchanged as a whole), and  *)
(* the generation raises no error.                                         *)
(***************************************************************************)
C13_UnresolvableLeftVerbatim ==
    \A slot \in DOMAIN generated :
        /\ ~generated[slot].threw
        /\ \A i \in {k \in DOMAIN config.services : Has(config.services[k], "env")} :
              LET service == config.services[i]
                  out == EnvOut(generated[slot].compose, service.name)
              IN  \A j \in DOMAIN service.env :
                    LET value == service.env[j].value
                        misses == {r \in Refs(Parts(value)) : ~Declares(r.svc, r.port)}
                    IN  /\ \A r \in misses :
                              Cardinality(Occurrences(RefText(r.svc, r.port), out[j].value))
                              = Cardinality(Occurrences(RefText(r.svc, r.port), value))
                        /\ (misses # {} /\ misses = Refs(Parts(value)))
                           => out[j].value = value

\* web generated next to api at slot 1: {nosvc.main.host} names no service,
\* {api.admin.host} a port api does not declare
C13_Witness ==
    /\ 1 \in DOMAIN generated
    /\ Declares("api", "main") /\ Declares("web", "debug")
    /\ ~Declares("api", "admin") /\ ~Declares("nosvc", "main")
    /\ \E e \in Range(EnvOut(generated[1].compose, "web")) :
          /\ Occurrences(RefText("nosvc", "main"), e.value) # {}
          /\ Occurrences(RefText("api", "admin"), e.value) # {}

\* the top-level volume declarations of a definition
VolumesOut(compose) == IF Has(compose, "volumes") THEN compose.volumes ELSE <<>>

\* the mounts a definition holds for a service
MountsOut(compose, name) ==
    IF Has(SvcOut(compose, name), "volumes") THEN SvcOut(compose, name).volumes
    ELSE <<>>

\* the name the claim gives volume v in the environment e generated at slot
Qualified(v, e, slot) == IF slot = 0 THEN v ELSE "wt-" \o e \o "-" \o v

\* the named volumes the catalog's services reference, qualified
Referenced(e, slot) ==
    UNION {{Qualified(config.services[i].named_volumes[j].name, e, slot) :
               j \in DOMAIN config.services[i].named_volumes} :
           i \in {k \in DOMAIN config.services :
                     Has(config.services[k], "named_volumes")}}

(***************************************************************************)
(* C14: at slot 0 a named volume v is mounted and declared under the bare  *)
(* name v, in an environment e at another slot under wt-e-v; the top-level *)
(* declarations hold each qualified name exactly once, however many        *)
(* services reference the volume, and no name that no service references.  *)
(***************************************************************************)
C14_NamedVolumes ==
    \A slot \in DOMAIN generated :
        LET e == generated[slot].worktreeName
            compose == generated[slot].compose
            decl == VolumesOut(compose)
        IN  /\ \A i \in {k \in DOMAIN config.services :
                             Has(config.services[k], "named_volumes")} :
                  \A j \in DOMAIN config.services[i].named_volumes :
                      LET nv == config.services[i].named_volumes[j]
                      IN  VolumePair(Qualified(nv.name, e, slot), nv.mount)
                          \in Range(MountsOut(compose, config.services[i].name))
            /\ \A q \in Referenced(e, slot) :
                  Cardinality({k \in DOMAIN decl : decl[k].name = q}) = 1
            /\ \A k \in DOMAIN decl : decl[k].name \in Referenced(e, slot)

\* api and web both mount data; generated as main and as wt-2 at slot 1
C14_Witness ==
    /\ {0, 1} \subseteq DOMAIN generated
    /\ generated[1].worktreeName = "wt-2"
    /\ \E i \in DOMAIN config.services : config.services[i].name = "api"
    /\ \E i \in DOMAIN config.services : config.services[i].name = "web"
    /\ {d.name : d \in Range(VolumesOut(generated[0].compose))} = {"data", "cache"}
    /\ {d.name : d \in Range(VolumesOut(generated[1].compose))}
         = {"wt-wt-2-data", "wt-wt-2-cache"}

(***************************************************************************)
(* operations.js: createWorktree, removeWorktree, cleanupAll.              *)
(*                                                                         *)
(* A world is the part of the file system the operations read and write:   *)
(*   slots    the registry file                                            *)
(*   dirs     the names whose storage directory exists                     *)
(*   compose  per name, the generated compose file of its directory        *)
(* The collaborators' outcomes are inputs of a call (env):                 *)
(*   rmOk     gitRemoveWorktree leaves the directory removed (else its     *)
(*            rmSync fallback throws)                                      *)
(*   gitOk    git worktree add succeeds                                    *)
(*   copy     .env.local: "skipped" (no source, or destination exists),    *)
(*            "ok", or "threw"                                             *)
(*   genOk    generateCompose and writeComposeFile succeed                 *)
(*   hookFails the post-create hooks (their indices) that exit non-zero    *)
(*   dirty    hasUncommittedChanges answers true                           *)
(*   downOk   docker compose down succeeds                                 *)
(***************************************************************************)
World == [slots |-> slotsFile, dirs |-> worktrees, compose |-> composeFiles]

\* the outcome of an operation: ret is "true", "false" or "threw"; end is
\* the step that ended it early ("" when it ran to its last line); calls are
\* the collaborators invoked, in order; warnings what was only logged
Outcome(ret, end, w, calls, warnings) ==
    [ret |-> ret, end |-> end, w |-> w, calls |-> calls, warnings |-> warnings]

\* the checkout directory removed, with everything in it
RemoveDir(w, name) ==
    [w EXCEPT !.dirs = @ \ {name},
              !.compose = [@ EXCEPT ![name] = {}]]

\* releaseSlot applied to the world's registry file
Released(w, name) == [w EXCEPT !.slots = releaseSlot(@, name).file]

\* the hooks of config.hooks.post_create, each attempted in order
HookCalls(cfg) == [i \in DOMAIN cfg.hooks |-> "hook:" \o cfg.hooks[i]]

\* getComposeFilename / writeComposeFile: the file holds the definition
\* generated for the slot
ComposeFile(name, slot, cfg) ==
    [slot |-> slot,
     compose |-> generateCompose([worktreeName |-> name, slot |-> slot,
                                  config |-> cfg])]

\* the loop left at the first hook that fails
runPostCreateHooksAbort(cfg, fails) ==
    LET failing == fails \cap DOMAIN cfg.hooks
        first == CHOOSE i \in failing : \A j \in failing : i <= j
    IN  IF failing = {} THEN [calls |-> HookCalls(cfg), warnings |-> {}]
        ELSE [calls |-> SubSeq(HookCalls(cfg), 1, first),
              warnings |-> {HookCalls(cfg)[first]}]

\* runPostCreateHooks: every hook run in order, a failing one (fails holds
\* its index) logged as a warning
runPostCreateHooks(cfg, fails) ==
    [calls |-> HookCalls(cfg),
     warnings |-> {HookCalls(cfg)[i] : i \in fails \cap DOMAIN cfg.hooks}]

createWorktree(w, cfg, name, force, skipHooks, env) ==
    LET a == assignSlot(w.slots, name, cfg.ports.max_worktrees)
        slot == CHOOSE v \in a.val : TRUE
        exists == name \in w.dirs
        w1 == [w EXCEPT !.slots = a.file]
        w2 == IF exists THEN RemoveDir(w1, name) ELSE w1
        w3 == [w2 EXCEPT !.dirs = @ \cup {name}]
        w4 == IF env.genOk
              THEN [w3 EXCEPT !.compose =
                        [@ EXCEPT ![name] = {ComposeFile(name, slot, cfg)}]]
              ELSE w3
        c1 == IF exists THEN <<"gitRemoveWorktree">> ELSE <<>>
        c2 == c1 \o <<"fetchOrigin", "gitCreateWorktree">>
        c3 == c2 \o (IF env.copy = "skipped" THEN <<>> ELSE <<"copyFileSync">>)
        c4 == c3 \o <<"generateCompose">>
        hooks == runPostCreateHooks(cfg, env.hookFails)
        c5 == c4 \o (IF skipHooks THEN <<>> ELSE hooks.calls)
        warn == (IF env.genOk THEN {} ELSE {"generateCompose"})
                \cup (IF skipHooks THEN {} ELSE hooks.warnings)
    IN  IF a.threw # "none" THEN Outcome("false", "assignSlot", w, <<>>, {})
        ELSE IF exists /\ ~force
        THEN Outcome("false", "existsSync", Released(w1, name), <<"releaseSlot">>, {})
        ELSE IF exists /\ ~env.rmOk
        THEN Outcome("threw", "gitRemoveWorktree", w1, c1, {})
        ELSE IF ~env.gitOk
        THEN Outcome("false", "gitCreateWorktree", Released(w2, name),
                     c2 \o <<"releaseSlot">>, {})
        ELSE IF env.copy = "threw" THEN Outcome("threw", "copyFileSync", w3, c3, {})
        ELSE Outcome("true", "", w4, c5, warn)

\* the dirty check made after the runtime was stopped
removeWorktreeDirtyLate(w, cfg, name, options, env) ==
    LET exists == name \in w.dirs
        c0 == <<"getCurrentBranch">>
              \o (IF options.force THEN <<>> ELSE <<"hasUncommittedChanges">>)
        c1 == c0 \o (IF w.compose[name] # {} THEN <<"dockerComposeDown">> ELSE <<>>)
        c2 == c1 \o <<"gitRemoveWorktree">>
        c3 == c2 \o <<"releaseSlot">>
        c4 == c3 \o (IF options.deleteBranch /\ env.branch THEN <<"deleteBranch">> ELSE <<>>)
        warn == IF w.compose[name] # {} /\ ~env.downOk
                THEN {"dockerComposeDown"} ELSE {}
    IN  IF ~exists THEN Outcome("true", "existsSync", w, <<>>, {"does not exist"})
        ELSE IF ~options.force /\ env.dirty
        THEN Outcome("false", "hasUncommittedChanges", w, c1, {"uncommitted changes"})
        ELSE IF ~env.rmOk THEN Outcome("threw", "gitRemoveWorktree", w, c2, warn)
        ELSE Outcome("true", "", Released(RemoveDir(w, name), name), c4, warn)

\* the slot released before the checkout is removed
removeWorktreeReleaseFirst(w, cfg, name, options, env) ==
    LET exists == name \in w.dirs
        c0 == <<"getCurrentBranch">>
              \o (IF options.force THEN <<>> ELSE <<"hasUncommittedChanges">>)
        c1 == c0 \o (IF w.compose[name] # {} THEN <<"dockerComposeDown">> ELSE <<>>)
        c2 == c1 \o <<"releaseSlot">>
        c3 == c2 \o <<"gitRemoveWorktree">>
        c4 == c3 \o (IF options.deleteBranch /\ env.branch THEN <<"deleteBranch">> ELSE <<>>)
        warn == IF w.compose[name] # {} /\ ~env.downOk
                THEN {"dockerComposeDown"} ELSE {}
    IN  IF ~exists THEN Outcome("true", "existsSync", w, <<>>, {"does not exist"})
        ELSE IF ~options.force /\ env.dirty
        THEN Outcome("false", "hasUncommittedChanges", w, c0, {"uncommitted changes"})
        ELSE IF ~env.rmOk THEN Outcome("threw", "gitRemoveWorktree", w, c2, warn)
        ELSE Outcome("true", "", Released(RemoveDir(w, name), name), c4, warn)

\* an absent storage path not taken as already removed
removeWorktreeAbsentGoesOn(w, cfg, name, options, env) ==
    LET exists == name \in w.dirs
        c0 == <<"getCurrentBranch">>
              \o (IF options.force THEN <<>> ELSE <<"hasUncommittedChanges">>)
        c1 == c0 \o (IF w.compose[name] # {} THEN <<"dockerComposeDown">> ELSE <<>>)
        c2 == c1 \o <<"gitRemoveWorktree">>
        c3 == c2 \o <<"releaseSlot">>
        c4 == c3 \o (IF options.deleteBranch /\ env.branch THEN <<"deleteBranch">> ELSE <<>>)
        warn == IF w.compose[name] # {} /\ ~env.downOk
                THEN {"dockerComposeDown"} ELSE {}
    IN  IF ~exists
        THEN Outcome("true", "existsSync", Released(w, name),
                     <<"getCurrentBranch", "gitRemoveWorktree", "releaseSlot">>,
                     {"does not exist"})
        ELSE IF ~options.force /\ env.dirty
        THEN Outcome("false", "hasUncommittedChanges", w, c0, {"uncommitted changes"})
        ELSE IF ~env.rmOk THEN Outcome("threw", "gitRemoveWorktree", w, c2, warn)
        ELSE Outcome("true", "", Released(RemoveDir(w, name), name), c4, warn)

\* removeWorktree of operations.js; env.branch: getCurrentBranch gave a name
removeWorktree(w, cfg, name, options, env) ==
    LET exists == name \in w.dirs
        c0 == <<"getCurrentBranch">>
              \o (IF options.force THEN <<>> ELSE <<"hasUncommittedChanges">>)
        c1 == c0 \o (IF w.compose[name] # {} THEN <<"dockerComposeDown">> ELSE <<>>)
        c2 == c1 \o <<"gitRemoveWorktree">>
        c3 == c2 \o <<"releaseSlot">>
        c4 == c3 \o (IF options.deleteBranch /\ env.branch THEN <<"deleteBranch">> ELSE <<>>)
        warn == IF w.compose[name] # {} /\ ~env.downOk
                THEN {"dockerComposeDown"} ELSE {}
    IN  IF ~exists THEN Outcome("true", "existsSync", w, <<>>, {"does not exist"})
        ELSE IF ~options.force /\ env.dirty
        THEN Outcome("false", "hasUncommittedChanges", w, c0, {"uncommitted changes"})
        ELSE IF ~env.rmOk THEN Outcome("threw", "gitRemoveWorktree", w, c2, warn)
        ELSE Outcome("true", "", Released(RemoveDir(w, name), name), c4, warn)

\* the loop of cleanupAll over the checkouts git lists (list): removed is
\* counted after every removeWorktree that returns, whatever it returns; a
\* removeWorktree that throws ends the loop (end names that checkout)
RECURSIVE cleanupLoop(_, _, _, _, _, _)
cleanupLoop(w, cfg, list, force, env, removed) ==
    IF list = <<>>
    THEN [ret |-> "true", end |-> "", w |-> w, removed |-> removed,
          calls |-> <<>>]
    ELSE LET name == Head(list)
             o == removeWorktree(w, cfg, name,
                                 [force |-> force, deleteBranch |-> FALSE],
                                 [rmOk |-> name \notin env.rmFails,
                                  branch |-> TRUE,
                                  dirty |-> name \in env.dirty,
                                  downOk |-> name \notin env.downFails])
             rest == cleanupLoop(o.w, cfg, Tail(list), force, env, removed + 1)
         IN  IF o.ret = "threw"
             THEN [ret |-> "threw", end |-> name, w |-> o.w,
                   removed |-> removed, calls |-> <<name>>]
             ELSE [rest EXCEPT !.calls = <<name>> \o @]

cleanupAll(w, cfg, list, force, env) ==
    cleanupLoop(w, cfg, list, force, env, 0)

(***************************************************************************)
(* Spec: one invocation at a time against one project, from its root.      *)
(***************************************************************************)
\* the catalog of the end-to-end scenario: api with main = 3000
ProjectConfig ==
    DefaultConfig(DefaultOffset, MaxSlots, <<Service("api", <<Port("main", 3000)>>)>>)
    @@ [hooks |-> <<"npm install", "npm test">>]

SetWorld(w) ==
    /\ slotsFile' = w.slots
    /\ worktrees' = w.dirs
    /\ composeFiles' = w.compose

\* the outcomes of createWorktree's collaborators
CreateEnvs ==
    [rmOk : BOOLEAN, gitOk : BOOLEAN, copy : {"skipped", "ok", "threw"},
     genOk : BOOLEAN, hookFails : {{}, {1}}]

RemoveEnvs ==
    [rmOk : BOOLEAN, dirty : BOOLEAN, downOk : BOOLEAN, branch : BOOLEAN]

\* A collaborator the call never reaches has no outcome: its input is held
\* at the value of success, so that one call is drawn once.
CreateConsults(w, cfg, name, force, skipHooks, env) ==
    LET full == assignSlot(w.slots, name, cfg.ports.max_worktrees).threw # "none"
        exists == name \in w.dirs
        early == full \/ (exists /\ ~force)
        atRm == ~early /\ exists
        atGit == ~early /\ (atRm => env.rmOk)
        atCopy == atGit /\ env.gitOk
        atGen == atCopy /\ env.copy # "threw"
        atHooks == atGen /\ ~skipHooks
    IN  /\ ~atRm => env.rmOk
        /\ ~atGit => env.gitOk
        /\ ~atCopy => env.copy = "skipped"
        /\ ~atGen => env.genOk
        /\ ~atHooks => env.hookFails = {}

RemoveConsults(w, name, options, env) ==
    LET exists == name \in w.dirs
        atDirty == exists /\ ~options.force
        atDown == exists /\ (atDirty => ~env.dirty) /\ w.compose[name] # {}
        atRm == exists /\ (atDirty => ~env.dirty)
        atBranch == atRm /\ env.rmOk /\ options.deleteBranch
    IN  /\ ~atDirty => ~env.dirty
        /\ ~atDown => env.downOk
        /\ ~atRm => env.rmOk
        /\ ~atBranch => env.branch

\* getExistingWorktrees: git worktree list gives the main checkout first
\* and the linked ones sorted by path
NameOrder == <<"wt-1", "wt-2", "wt-3">>
getExistingWorktrees(w) == SelectSeq(NameOrder, LAMBDA n : n \in w.dirs)

\* what the state keeps of a call: n counts the invocations of the run
Call(op, name, force, o, removed) ==
    [op |-> op, name |-> name, force |-> force, ret |-> o.ret, end |-> o.end,
     removed |-> removed, pre |-> World, n |-> last.n + 1]

CreateStep(name, force, skipHooks, env) ==
    LET o == createWorktree(World, config, name, force, skipHooks, env)
    IN  /\ CreateConsults(World, config, name, force, skipHooks, env)
        /\ SetWorld(o.w)
        /\ last' = Call("create", name, force, o, 0)
        /\ UNCHANGED <<config, held, generated>>

RemoveStep(name, options, env) ==
    LET o == removeWorktree(World, config, name, options, env)
    IN  /\ RemoveConsults(World, name, options, env)
        /\ SetWorld(o.w)
        /\ last' = Call("remove", name, options.force, o, 0)
        /\ UNCHANGED <<config, held, generated>>

CleanupAllStep(force, env) ==
    LET o == cleanupAll(World, config, getExistingWorktrees(World), force, env)
    IN  /\ force => env.dirty = {}
        /\ SetWorld(o.w)
        /\ last' = Call("cleanupAll", "", force, o, o.removed)
        /\ UNCHANGED <<config, held, generated>>

Create(name, force, skipHooks, env) ==
    /\ last.n < MaxCalls
    /\ CreateStep(name, force, skipHooks, env)
    /\ UNCHANGED prev

Remove(name, options, env) ==
    /\ last.n < MaxCalls
    /\ RemoveStep(name, options, env)
    /\ UNCHANGED prev

CleanupAll(force, env) ==
    /\ last.n < MaxCalls
    /\ CleanupAllStep(force, env)
    /\ UNCHANGED prev

Init ==
    /\ config = ProjectConfig
    /\ slotsFile = AbsentFile
    /\ last = [op |-> "none", name |-> "", force |-> FALSE, ret |-> "true",
               end |-> "", removed |-> 0, n |-> 0,
               pre |-> [slots |-> AbsentFile, dirs |-> {},
                        compose |-> [n \in Names |-> {}]]]
    /\ prev = NoCall
    /\ held = [n \in Names |-> {}]
    /\ worktrees = {}
    /\ composeFiles = [n \in Names |-> {}]
    /\ generated = [s \in {} |-> 0]

Next ==
    \/ \E name \in Names, force \in BOOLEAN, skipHooks \in BOOLEAN,
          env \in CreateEnvs : Create(name, force, skipHooks, env)
    \/ \E name \in Names, force \in BOOLEAN, deleteBranch \in BOOLEAN,
          env \in RemoveEnvs :
            Remove(name, [force |-> force, deleteBranch |-> deleteBranch], env)
    \/ \E force \in BOOLEAN, rmFails \in SUBSET worktrees,
          isDirty \in SUBSET worktrees :
            CleanupAll(force,
                       [rmFails |-> rmFails, dirty |-> isDirty, downFails |-> {}])

Spec == Init /\ [][Next]_vars

(***************************************************************************)
(* SpecTrace: the same invocations, the state keeping in prev what the     *)
(* last one did: the collaborators it invoked, in order, what it only      *)
(* logged as a warning, and what its collaborators answered (env).         *)
(***************************************************************************)
Trace(calls, warnings, options, env) ==
    [calls |-> calls, warnings |-> warnings, options |-> options, env |-> env]

CreateTraced(name, force, skipHooks, env) ==
    /\ last.n < MaxTraceCalls
    /\ CreateStep(name, force, skipHooks, env)
    /\ prev' = LET o == createWorktree(World, config, name, force, skipHooks, env)
               IN  Trace(o.calls, o.warnings,
                         [force |-> force, skipHooks |-> skipHooks], env)

RemoveTraced(name, options, env) ==
    /\ last.n < MaxTraceCalls
    /\ RemoveStep(name, options, env)
    /\ prev' = LET o == removeWorktree(World, config, name, options, env)
               IN  Trace(o.calls, o.warnings, options, env)

CleanupAllTraced(force, env) ==
    /\ last.n < MaxTraceCalls
    /\ CleanupAllStep(force, env)
    /\ prev' = LET o == cleanupAll(World, config, getExistingWorktrees(World),
                                   force, env)
               IN  Trace(o.calls, {}, [force |-> force], env)

InitTrace ==
    /\ config = ProjectConfig
    /\ slotsFile = AbsentFile
    /\ last = [op |-> "none", name |-> "", force |-> FALSE, ret |-> "true",
               end |-> "", removed |-> 0, n |-> 0,
               pre |-> [slots |-> AbsentFile, dirs |-> {},
                        compose |-> [n \in Names |-> {}]]]
    /\ prev = Trace(<<>>, {}, [force |-> FALSE], [dirty |-> FALSE])
    /\ held = [n \in Names |-> {}]
    /\ worktrees = {}
    /\ composeFiles = [n \in Names |-> {}]
    /\ generated = [s \in {} |-> 0]

NextTrace ==
    \/ \E name \in Names, force \in BOOLEAN, skipHooks \in BOOLEAN,
          env \in CreateEnvs : CreateTraced(name, force, skipHooks, env)
    \/ \E name \in Names, force \in BOOLEAN, deleteBranch \in BOOLEAN,
          env \in RemoveEnvs :
            RemoveTraced(name, [force |-> force, deleteBranch |-> deleteBranch], env)
    \/ \E force \in BOOLEAN, rmFails \in SUBSET worktrees,
          isDirty \in SUBSET worktrees :
            CleanupAllTraced(force,
                             [rmFails |-> rmFails, dirty |-> isDirty,
                              downFails |-> {}])

SpecTrace == InitTrace /\ [][NextTrace]_vars

(***************************************************************************)
(* C1: after any sequence of create, remove and cleanupAll run one at a    *)
(* time, no two environments whose storage directories exist at the same   *)
(* time were provisioned with the same slot (the slot the host ports of    *)
(* their generated definitions were computed from).                        *)
(***************************************************************************)
C1_LiveSlotsDistinct ==
    \A a \in worktrees, b \in worktrees :
        a # b =>
            \A fa \in composeFiles[a], fb \in composeFiles[b] :
                /\ fa.slot # fb.slot
                /\ HostPorts(fa.compose) \cap HostPorts(fb.compose) = {}

\* the host ports of the definition file in the checkout of name
FilePorts(name) == UNION {HostPorts(f.compose) : f \in composeFiles[name]}

\* the invocation was a create of name that succeeded, started with the
\* registry reg and the checkouts dirs
Created(name, reg, dirs) ==
    /\ last.op = "create" /\ last.name = name /\ last.ret = "true"
    /\ last.pre.slots.map = reg
    /\ last.pre.dirs = dirs

(***************************************************************************)
(* C16: with one service api (main = 3000), offset 1000 and an empty       *)
(* registry: create wt-1 is given slot 1 and host port 4000; then create   *)
(* wt-2 slot 2 and host port 5000; then remove wt-1 leaves wt-2 at slot 2; *)
(* then create wt-3 is given slot 1 and host port 4000 again, wt-2 still   *)
(* holding slot 2.                                                         *)
(***************************************************************************)
C16_EndToEnd ==
    /\ Created("wt-1", EmptyMap, {})
       => /\ slotsFile.map = ("wt-1" :> 1)
          /\ FilePorts("wt-1") \subseteq {4000}
    /\ Created("wt-2", ("wt-1" :> 1), {"wt-1"})
       => /\ slotsFile.map = ("wt-1" :> 1) @@ ("wt-2" :> 2)
          /\ FilePorts("wt-2") \subseteq {5000}
    /\ (/\ last.op = "remove" /\ last.name = "wt-1" /\ last.ret = "true"
        /\ last.pre.slots.map = ("wt-1" :> 1) @@ ("wt-2" :> 2)
        /\ last.pre.dirs = {"wt-1", "wt-2"})
       => /\ slotsFile.map = ("wt-2" :> 2)
          /\ worktrees = {"wt-2"}
    /\ Created("wt-3", ("wt-2" :> 2), {"wt-2"})
       => /\ slotsFile.map = ("wt-2" :> 2) @@ ("wt-3" :> 1)
          /\ FilePorts("wt-3") \subseteq {4000}
          /\ composeFiles["wt-2"] = last.pre.compose["wt-2"]

\* the fourth invocation of the run was the create of wt-3, after wt-1 was
\* created, wt-2 created and wt-1 removed
C16_Witness ==
    /\ last.n = 4
    /\ Created("wt-3", ("wt-2" :> 2), {"wt-2"})
    /\ slotsFile.map = ("wt-2" :> 2) @@ ("wt-3" :> 1)
    /\ FilePorts("wt-3") = {4000}
    /\ FilePorts("wt-2") = {5000}

\* the failed create released the slot of its name only if the call had
\* newly assigned it: an entry the registry held before is as it was
ReleasedOnlyIfNew ==
    LET name == last.name
        before == last.pre.slots.map
    IN  IF name \in DOMAIN before
        THEN /\ name \in DOMAIN slotsFile.map
             /\ slotsFile.map[name] = before[name]
        ELSE name \notin DOMAIN slotsFile.map

(***************************************************************************)
(* C17: a create without force that finds the storage path of its name     *)
(* present fails, and releases the slot of the name only if this call      *)
(* newly assigned it: an entry the name had before the call is still       *)
(* there, with the same slot.                                              *)
(***************************************************************************)
C17_AlreadyExistsKeepsHeldSlot ==
    (last.op = "create" /\ last.end = "existsSync")
    => /\ last.ret = "false"
       /\ ~last.force
       /\ ReleasedOnlyIfNew

(***************************************************************************)
(* C18: a create that fails because the checkout collaborator fails        *)
(* releases the slot only if this call newly assigned it: a name that held *)
(* a slot before the call holds the same slot after it.                    *)
(***************************************************************************)
C18_CheckoutFailureKeepsHeldSlot ==
    (last.op = "create" /\ last.end = "gitCreateWorktree")
    => /\ last.ret = "false"
       /\ ReleasedOnlyIfNew

\* the registry was exhausted for the name when the invocation started
Exhausted(name) ==
    /\ name \notin DOMAIN last.pre.slots.map
    /\ Range(last.pre.slots.map) = 1..config.ports.max_worktrees

(***************************************************************************)
(* C19: a create that cannot obtain a slot (registry exhausted) fails      *)
(* before any other step: no collaborator is invoked (no checkout, no      *)
(* definition, no hook) and the registry, the checkouts and the definition *)
(* files are as they were.                                                 *)
(***************************************************************************)
C19_ExhaustedAbortsFirst ==
    (last.op = "create" /\ Exhausted(last.name))
    => /\ last.ret = "false"
       /\ last.end = "assignSlot"
       /\ prev.calls = <<>>
       /\ World = last.pre

\* wt-3 asked for with wt-1 and wt-2 holding slots 1 and 2
C19_Witness ==
    /\ last.op = "create" /\ last.name = "wt-3"
    /\ last.pre.slots.map = ("wt-1" :> 1) @@ ("wt-2" :> 2)
    /\ config.ports.max_worktrees = 2
    /\ last.ret = "false"

\* the collaborators invoked after the definition was generated
AfterGenerate(calls) ==
    LET g == CHOOSE i \in DOMAIN calls : calls[i] = "generateCompose"
    IN  SubSeq(calls, g + 1, Len(calls))

(***************************************************************************)
(* C20: once create has its slot and the checkout, a failure of the        *)
(* definition generation or of a post-create hook does not make it fail    *)
(* and does not release the slot: create returns success, the name holds   *)
(* its slot, and (unless hooks are skipped) every configured hook was      *)
(* attempted, in configuration order.                                      *)
(***************************************************************************)
C20_GenerateAndHooksNonFatal ==
    (/\ last.op = "create"
     /\ "generateCompose" \in Range(prev.calls)
     /\ prev.warnings # {})
    => /\ last.ret = "true"
       /\ last.name \in worktrees
       /\ last.name \in DOMAIN slotsFile.map
       /\ last.name \in DOMAIN last.pre.slots.map
            => slotsFile.map[last.name] = last.pre.slots.map[last.name]
       /\ ~prev.options.skipHooks
            => AfterGenerate(prev.calls) = HookCalls(config)

\* the definition could not be generated and the first of two hooks failed
C20_Witness ==
    /\ last.op = "create" /\ last.ret = "true"
    /\ ~prev.options.skipHooks
    /\ Len(config.hooks) = 2
    /\ prev.warnings = {"generateCompose", HookCalls(config)[1]}
    /\ composeFiles[last.name] = {}

\* the steps of removeWorktree that change something, as they were invoked
Teardown(calls) ==
    SelectSeq(calls, LAMBDA c : c \in {"dockerComposeDown", "gitRemoveWorktree",
                                       "releaseSlot", "deleteBranch"})

(***************************************************************************)
(* C21: a failure of the copy of the secrets file during create is only a  *)
(* warning: the create that attempted the copy goes on to generate the     *)
(* definition and to run the hooks, and returns success.                   *)
(***************************************************************************)
C21_CopyFailureNonFatal ==
    (last.op = "create" /\ "copyFileSync" \in Range(prev.calls))
    => /\ last.ret = "true"
       /\ "generateCompose" \in Range(prev.calls)
       /\ ~prev.options.skipHooks
            => AfterGenerate(prev.calls) = HookCalls(config)

(***************************************************************************)
(* C22: a remove without force of an environment whose working tree has    *)
(* uncommitted changes returns failure and changes nothing: the runtime is *)
(* not stopped, the checkout still exists, its definition file and the     *)
(* registry are as before, and no branch is deleted. With force the        *)
(* working tree is not examined.                                           *)
(***************************************************************************)
C22_DirtyRemoveChangesNothing ==
    (last.op = "remove" /\ last.name \in last.pre.dirs)
    => /\ (~prev.options.force /\ prev.env.dirty)
            => /\ last.ret = "false"
               /\ Teardown(prev.calls) = <<>>
               /\ World = last.pre
       /\ prev.options.force
            => /\ "hasUncommittedChanges" \notin Range(prev.calls)
               /\ last.end # "hasUncommittedChanges"

\* a dirty environment with a definition file, its branch to be deleted,
\* was refused
C22_Witness ==
    /\ last.op = "remove" /\ last.ret = "false"
    /\ ~prev.options.force /\ prev.env.dirty
    /\ prev.options.deleteBranch
    /\ last.name \in worktrees
    /\ composeFiles[last.name] # {}
    /\ last.name \in DOMAIN slotsFile.map

\* the teardown steps a remove of an existing environment is to run
TeardownOrder ==
    (IF last.pre.compose[last.name] # {} THEN <<"dockerComposeDown">> ELSE <<>>)
    \o <<"gitRemoveWorktree", "releaseSlot">>
    \o (IF prev.options.deleteBranch /\ prev.env.branch
        THEN <<"deleteBranch">> ELSE <<>>)

(***************************************************************************)
(* C23: a remove of an existing environment that passes the dirty check    *)
(* stops the runtime (only when the definition file exists), removes the   *)
(* checkout, releases the slot and deletes the branch when asked to, in    *)
(* that order; a runtime stop that fails is a warning and the later steps  *)
(* still run. When it returns success the storage directory is absent, the *)
(* name has no registry entry and every other name's entry is as before.   *)
(***************************************************************************)
C23_RemoveOrder ==
    (/\ last.op = "remove" /\ last.name \in last.pre.dirs
     /\ (prev.options.force \/ ~prev.env.dirty))
    => /\ \E k \in 0..Len(TeardownOrder) :
            Teardown(prev.calls) = SubSeq(TeardownOrder, 1, k)
       /\ "gitRemoveWorktree" \in Range(prev.calls)
       /\ ~prev.env.downOk => "dockerComposeDown" \in prev.warnings
       /\ prev.env.rmOk => last.ret = "true"
       /\ last.ret = "true"
            => /\ Teardown(prev.calls) = TeardownOrder
               /\ last.name \notin worktrees
               /\ last.name \notin DOMAIN slotsFile.map
               /\ DOMAIN slotsFile.map = DOMAIN last.pre.slots.map \ {last.name}
               /\ \A other \in DOMAIN slotsFile.map :
                    slotsFile.map[other] = last.pre.slots.map[other]

\* the runtime stop failed and the remove went through all four steps,
\* another environment keeping its slot
C23_Witness ==
    /\ last.op = "remove" /\ last.ret = "true"
    /\ ~prev.env.downOk
    /\ prev.calls = <<"getCurrentBranch", "hasUncommittedChanges",
                      "dockerComposeDown", "gitRemoveWorktree", "releaseSlot",
                      "deleteBranch">>
    /\ last.name \in DOMAIN last.pre.slots.map
    /\ DOMAIN slotsFile.map # {}

(***************************************************************************)
(* C24: a remove of a name whose storage path is absent returns success    *)
(* without invoking the checkout or the runtime collaborators and without  *)
(* deleting a branch.                                                      *)
(***************************************************************************)
C24_AbsentPathIsSuccess ==
    (last.op = "remove" /\ last.name \notin last.pre.dirs)
    => /\ last.ret = "true"
       /\ prev.calls = <<>>
       /\ worktrees = last.pre.dirs
       /\ composeFiles = last.pre.compose

\* a remove with force and branch deletion of a name that was never
\* created, beside an existing environment
C24_Witness ==
    /\ last.op = "remove" /\ last.ret = "true"
    /\ last.name \notin last.pre.dirs
    /\ prev.options.force /\ prev.options.deleteBranch
    /\ worktrees # {}

(***************************************************************************)
(* C25: cleanupAll attempts the remove of every known environment, one     *)
(* that fails (by returning failure or by raising) not keeping the others  *)
(* from being attempted, and the count it reports is the number of         *)
(* environments whose remove succeeded.                                    *)
(***************************************************************************)
C25_CleanupAllCountsSuccesses ==
    last.op = "cleanupAll"
    => /\ last.ret = "true"
       /\ prev.calls = getExistingWorktrees(last.pre)
       /\ last.removed = Cardinality(last.pre.dirs \ worktrees)

(***************************************************************************)
(* dev.js: the context an invocation resolves, and startDev, stopDev,      *)
(* statusDev, logsDev and listWorktrees.  A path is the sequence of its    *)
(* segments below the file system root; the project is at Root.  The       *)
(* worktree.toml of a checkout is the committed one, the same as the       *)
(* project's.  Inputs of a call (env):                                     *)
(*   docker       isDockerAvailable answers true                           *)
(*   upOk         docker compose up succeeds                               *)
(*   healthy      both containers become healthy in time                   *)
(*   ip           getContainerIp finds the address of core-api             *)
(*   mainCompose  a docker-compose.yml the user wrote exists in the        *)
(*                resolved project root                                    *)
(*   downOk       docker compose down succeeds                             *)
(***************************************************************************)
Root == <<"proj">>

\* an option that was not given (undefined), a name that was not found (null)
NoName == ""

IsPrefix(p, q) == Len(p) <= Len(q) /\ SubSeq(q, 1, Len(p)) = p

\* join(projectRoot, config.project.worktree_dir, name)
WorktreePath(projectRoot, cfg, name) ==
    projectRoot \o <<cfg.project.worktree_dir, name>>

\* the directories that hold a .git entry: the project, and every checkout
GitDirs(w, cfg) == {Root} \cup {WorktreePath(Root, cfg, n) : n \in w.dirs}

\* findProjectRoot: the nearest directory, from cwd upwards, holding .git
\* (the set with it; {} when there is none and it throws)
findProjectRoot(cwd, gitDirs) ==
    LET found == {p \in gitDirs : IsPrefix(p, cwd)}
    IN  IF found = {} THEN {}
        ELSE {CHOOSE p \in found : \A q \in found : Len(q) <= Len(p)}

\* cwd.indexOf('/.worktrees/'): the first segment .worktrees that another
\* segment follows (0 when there is none)
indexOfWorktrees(cwd) ==
    LET at == {i \in 1..(Len(cwd) - 1) : cwd[i] = ".worktrees"}
    IN  IF at = {} THEN 0 ELSE CHOOSE i \in at : \A j \in at : i <= j

findRealProjectRoot(cwd, gitDirs) ==
    LET idx == indexOfWorktrees(cwd)
        root == findProjectRoot(cwd, gitDirs)
    IN  IF idx # 0
        THEN [threw |-> FALSE, projectRoot |-> SubSeq(cwd, 1, idx - 1),
              isInWorktree |-> TRUE, worktreeName |-> cwd[idx + 1]]
        ELSE IF root = {}
        THEN [threw |-> TRUE, projectRoot |-> <<>>, isInWorktree |-> FALSE,
              worktreeName |-> NoName]
        ELSE [threw |-> FALSE, projectRoot |-> CHOOSE p \in root : TRUE,
              isInWorktree |-> FALSE, worktreeName |-> NoName]

getComposeFilename(worktreeName) ==
    IF worktreeName = NoName THEN "docker-compose.yml"
    ELSE "docker-compose.wt-" \o worktreeName \o ".yml"

getComposePath(projectRoot, cfg, worktreeName) ==
    IF worktreeName = NoName THEN projectRoot \o <<"docker-compose.yml">>
    ELSE WorktreePath(projectRoot, cfg, worktreeName)
         \o <<getComposeFilename(worktreeName)>>

\* the project name of a named environment without the wt- prefix
getComposeProjectBare(cfg, worktreeName) ==
    IF worktreeName = NoName THEN cfg.project.name ELSE worktreeName

getComposeProject(cfg, worktreeName) ==
    IF worktreeName = NoName THEN cfg.project.name ELSE "wt-" \o worktreeName

\* the registry file of a project root: only the project has one
SlotsAt(w, projectRoot) == IF projectRoot = Root THEN w.slots ELSE AbsentFile

\* existsSync of a definition file: the generated one of a checkout, or a
\* docker-compose.yml of the user's
existsSync(w, cfg, path, env) ==
    \/ \E n \in Names : path = getComposePath(Root, cfg, n) /\ w.compose[n] # {}
    \/ path[Len(path)] = "docker-compose.yml" /\ env.mainCompose

\* what a context record holds when no context was resolved
NoContext ==
    [threw |-> "none", worktreeName |-> NoName, isWorktree |-> FALSE, slot |-> 0,
     projectRoot |-> <<>>, workingDir |-> <<>>, composePath |-> <<>>,
     composeProject |-> ""]

\* a name without a registry entry given slot 0 instead of a failure
getDevContextDefaultSlot(w, cfg, cwd, worktreeName) ==
    LET r == findRealProjectRoot(cwd, GitDirs(w, cfg))
        effectiveName == IF worktreeName # NoName THEN worktreeName
                         ELSE r.worktreeName
        worktreePath == WorktreePath(r.projectRoot, cfg, effectiveName)
        slot == getSlot(SlotsAt(w, r.projectRoot), effectiveName)
        named == [NoContext EXCEPT !.worktreeName = effectiveName,
                                   !.projectRoot = r.projectRoot]
    IN  IF r.threw THEN [NoContext EXCEPT !.threw = "findProjectRoot"]
        ELSE IF effectiveName # NoName
        THEN IF worktreePath \notin GitDirs(w, cfg)
             THEN [named EXCEPT !.threw = "not found"]
             ELSE IF slot.threw # "none" THEN [named EXCEPT !.threw = slot.threw]
             ELSE [threw |-> "none", worktreeName |-> effectiveName,
                   isWorktree |-> TRUE,
                   slot |-> IF slot.val = {} THEN 0
                            ELSE CHOOSE v \in slot.val : TRUE,
                   projectRoot |-> r.projectRoot, workingDir |-> worktreePath,
                   composePath |-> getComposePath(r.projectRoot, cfg, effectiveName),
                   composeProject |-> getComposeProject(cfg, effectiveName)]
        ELSE [threw |-> "none", worktreeName |-> NoName, isWorktree |-> FALSE,
              slot |-> 0, projectRoot |-> r.projectRoot,
              workingDir |-> r.projectRoot,
              composePath |-> getComposePath(r.projectRoot, cfg, NoName),
              composeProject |-> getComposeProject(cfg, NoName)]

\* getDevContext: threw is "none" or what made it throw; worktreeName is
\* the effective name (worktreeName ?? detectedName)
getDevContext(w, cfg, cwd, worktreeName) ==
    LET r == findRealProjectRoot(cwd, GitDirs(w, cfg))
        effectiveName == IF worktreeName # NoName THEN worktreeName
                         ELSE r.worktreeName
        worktreePath == WorktreePath(r.projectRoot, cfg, effectiveName)
        slot == getSlot(SlotsAt(w, r.projectRoot), effectiveName)
        named == [NoContext EXCEPT !.worktreeName = effectiveName,
                                   !.projectRoot = r.projectRoot]
    IN  IF r.threw THEN [NoContext EXCEPT !.threw = "findProjectRoot"]
        ELSE IF effectiveName # NoName
        THEN IF worktreePath \notin GitDirs(w, cfg)
             THEN [named EXCEPT !.threw = "not found"]
             ELSE IF slot.threw # "none" THEN [named EXCEPT !.threw = slot.threw]
             ELSE IF slot.val = {} THEN [named EXCEPT !.threw = "no slot"]
             ELSE [threw |-> "none", worktreeName |-> effectiveName,
                   isWorktree |-> TRUE, slot |-> CHOOSE v \in slot.val : TRUE,
                   projectRoot |-> r.projectRoot, workingDir |-> worktreePath,
                   composePath |-> getComposePath(r.projectRoot, cfg, effectiveName),
                   composeProject |-> getComposeProject(cfg, effectiveName)]
        ELSE [threw |-> "none", worktreeName |-> NoName, isWorktree |-> FALSE,
              slot |-> 0, projectRoot |-> r.projectRoot,
              workingDir |-> r.projectRoot,
              composePath |-> getComposePath(r.projectRoot, cfg, NoName),
              composeProject |-> getComposeProject(cfg, NoName)]

\* the outcome of a dev operation, with the context it resolved
\* what the runtime collaborator is handed: { composePath, projectName }
NoArgs == [composePath |-> <<>>, projectName |-> ""]
ComposeArgs(context) ==
    [composePath |-> context.composePath, projectName |-> context.composeProject]

DevOutcome(ret, end, w, calls, warnings, context) ==
    Outcome(ret, end, w, calls, warnings)
    @@ [context |-> context, args |-> NoArgs]

\* the outcome of an operation that invoked the runtime with args
Invoked(o, args) == [o EXCEPT !.args = args]

\* no question asked of the runtime engine before starting
startDevNoDockerCheck(w, cfg, cwd, options, env) ==
    LET context == getDevContext(w, cfg, cwd, options.worktreeName)
        gen == [worktreeName |-> context.worktreeName, slot |-> context.slot,
                config |-> cfg]
        w1 == IF context.isWorktree
              THEN [w EXCEPT !.compose = [@ EXCEPT ![context.worktreeName] =
                        {ComposeFile(context.worktreeName, context.slot, cfg)}]]
              ELSE w
        c1 == IF context.isWorktree
              THEN <<"generateCompose", "writeComposeFile">> ELSE <<>>
        c2 == c1 \o (IF options.localSdk THEN <<"setupLocalDev">> ELSE <<>>)
        c3 == c2 \o <<"dockerComposeUp">>
        c4 == c3 \o <<"waitForContainerHealthy", "waitForContainerHealthy",
                      "getContainerIp", "getContainerIp">>
        c5 == c4 \o (IF env.ip THEN <<"createTestUser">> ELSE <<>>)
        warn == IF env.healthy THEN {} ELSE {"did not become healthy in time"}
    IN  IF context.threw # "none"
        THEN DevOutcome("threw", "getDevContext", w, <<>>, {}, context)
        ELSE IF context.isWorktree /\ generateComposeThrows(gen)
        THEN DevOutcome("threw", "generateCompose", w, <<"generateCompose">>, {},
                        context)
        ELSE IF ~env.upOk
        THEN Invoked(DevOutcome("false", "dockerComposeUp", w1, c3, {}, context),
                     ComposeArgs(context))
        ELSE Invoked(DevOutcome("true", "", w1, c5, warn, context),
                     ComposeArgs(context))

\* the definition file written only when there is none
startDevKeepsFile(w, cfg, cwd, options, env) ==
    LET context == getDevContext(w, cfg, cwd, options.worktreeName)
        gen == [worktreeName |-> context.worktreeName, slot |-> context.slot,
                config |-> cfg]
        w1 == IF context.isWorktree /\ w.compose[context.worktreeName] = {}
              THEN [w EXCEPT !.compose = [@ EXCEPT ![context.worktreeName] =
                        {ComposeFile(context.worktreeName, context.slot, cfg)}]]
              ELSE w
        c1 == IF context.isWorktree
              THEN <<"generateCompose", "writeComposeFile">> ELSE <<>>
        c2 == c1 \o (IF options.localSdk THEN <<"setupLocalDev">> ELSE <<>>)
        c3 == c2 \o <<"dockerComposeUp">>
        c4 == c3 \o <<"waitForContainerHealthy", "waitForContainerHealthy",
                      "getContainerIp", "getContainerIp">>
        c5 == c4 \o (IF env.ip THEN <<"createTestUser">> ELSE <<>>)
        warn == IF env.healthy THEN {} ELSE {"did not become healthy in time"}
    IN  IF ~env.docker THEN DevOutcome("false", "isDockerAvailable", w, <<>>, {}, NoContext)
        ELSE IF context.threw # "none"
        THEN DevOutcome("threw", "getDevContext", w, <<>>, {}, context)
        ELSE IF context.isWorktree /\ generateComposeThrows(gen)
        THEN DevOutcome("threw", "generateCompose", w, <<"generateCompose">>, {},
                        context)
        ELSE IF ~env.upOk
        THEN Invoked(DevOutcome("false", "dockerComposeUp", w1, c3, {}, context),
                     ComposeArgs(context))
        ELSE Invoked(DevOutcome("true", "", w1, c5, warn, context),
                     ComposeArgs(context))

\* startDev: the definition of a worktree context is generated and written
\* before docker compose up, whose failure is caught
startDev(w, cfg, cwd, options, env) ==
    LET context == getDevContext(w, cfg, cwd, options.worktreeName)
        gen == [worktreeName |-> context.worktreeName, slot |-> context.slot,
                config |-> cfg]
        w1 == IF context.isWorktree
              THEN [w EXCEPT !.compose = [@ EXCEPT ![context.worktreeName] =
                        {ComposeFile(context.worktreeName, context.slot, cfg)}]]
              ELSE w
        c1 == IF context.isWorktree
              THEN <<"generateCompose", "writeComposeFile">> ELSE <<>>
        c2 == c1 \o (IF options.localSdk THEN <<"setupLocalDev">> ELSE <<>>)
        c3 == c2 \o <<"dockerComposeUp">>
        c4 == c3 \o <<"waitForContainerHealthy", "waitForContainerHealthy",
                      "getContainerIp", "getContainerIp">>
        c5 == c4 \o (IF env.ip THEN <<"createTestUser">> ELSE <<>>)
        warn == IF env.healthy THEN {} ELSE {"did not become healthy in time"}
    IN  IF ~env.docker THEN DevOutcome("false", "isDockerAvailable", w, <<>>, {}, NoContext)
        ELSE IF context.threw # "none"
        THEN DevOutcome("threw", "getDevContext", w, <<>>, {}, context)
        ELSE IF context.isWorktree /\ generateComposeThrows(gen)
        THEN DevOutcome("threw", "generateCompose", w, <<"generateCompose">>, {},
                        context)
        ELSE IF ~env.upOk
        THEN Invoked(DevOutcome("false", "dockerComposeUp", w1, c3, {}, context),
                     ComposeArgs(context))
        ELSE Invoked(DevOutcome("true", "", w1, c5, warn, context),
                     ComposeArgs(context))

\* the local links cleaned up although the shutdown failed
stopDevCleansAnyway(w, cfg, cwd, options, env) ==
    LET context == getDevContext(w, cfg, cwd, options.worktreeName)
    IN  IF context.threw # "none"
        THEN DevOutcome("threw", "getDevContext", w, <<>>, {}, context)
        ELSE IF ~existsSync(w, cfg, context.composePath, env)
        THEN DevOutcome("true", "existsSync", w, <<>>,
                        {"No docker-compose.yml found"}, context)
        ELSE IF ~env.downOk
        THEN Invoked(DevOutcome("false", "dockerComposeDown", w,
                                <<"dockerComposeDown">>
                                \o (IF options.cleanYalc
                                    THEN <<"cleanupLocalDev">> ELSE <<>>),
                                {}, context),
                     ComposeArgs(context))
        ELSE Invoked(DevOutcome("true", "", w,
                                <<"dockerComposeDown">>
                                \o (IF options.cleanYalc
                                    THEN <<"cleanupLocalDev">> ELSE <<>>),
                                {}, context),
                     ComposeArgs(context))

stopDev(w, cfg, cwd, options, env) ==
    LET context == getDevContext(w, cfg, cwd, options.worktreeName)
    IN  IF context.threw # "none"
        THEN DevOutcome("threw", "getDevContext", w, <<>>, {}, context)
        ELSE IF ~existsSync(w, cfg, context.composePath, env)
        THEN DevOutcome("true", "existsSync", w, <<>>,
                        {"No docker-compose.yml found"}, context)
        ELSE IF ~env.downOk
        THEN Invoked(DevOutcome("false", "dockerComposeDown", w,
                                <<"dockerComposeDown">>, {}, context),
                     ComposeArgs(context))
        ELSE Invoked(DevOutcome("true", "", w,
                                <<"dockerComposeDown">>
                                \o (IF options.cleanYalc
                                    THEN <<"cleanupLocalDev">> ELSE <<>>),
                                {}, context),
                     ComposeArgs(context))

\* the definition file written again before it is looked for
statusDevRegenerates(w, cfg, cwd, worktreeName, env) ==
    LET context == getDevContext(w, cfg, cwd, worktreeName)
        w1 == IF context.isWorktree
              THEN [w EXCEPT !.compose = [@ EXCEPT ![context.worktreeName] =
                        {ComposeFile(context.worktreeName, context.slot, cfg)}]]
              ELSE w
    IN  IF context.threw # "none"
        THEN DevOutcome("threw", "getDevContext", w, <<>>, {}, context)
        ELSE IF ~existsSync(w1, cfg, context.composePath, env)
        THEN DevOutcome("undefined", "existsSync", w1, <<>>,
                        {"No docker-compose.yml found"}, context)
        ELSE Invoked(DevOutcome("undefined", "", w1,
                                <<"getServicePorts", "dockerComposePs">>, {},
                                context),
                     ComposeArgs(context))

\* statusDev: returns nothing; the port table and docker compose ps are
\* shown when the definition file exists
statusDev(w, cfg, cwd, worktreeName, env) ==
    LET context == getDevContext(w, cfg, cwd, worktreeName)
    IN  IF context.threw # "none"
        THEN DevOutcome("threw", "getDevContext", w, <<>>, {}, context)
        ELSE IF ~existsSync(w, cfg, context.composePath, env)
        THEN DevOutcome("undefined", "existsSync", w, <<>>,
                        {"No docker-compose.yml found"}, context)
        ELSE Invoked(DevOutcome("undefined", "", w,
                                <<"getServicePorts", "dockerComposePs">>, {},
                                context),
                     ComposeArgs(context))

\* logsDev: docker compose logs, whose failure is caught
logsDev(w, cfg, cwd, options, env) ==
    LET context == getDevContext(w, cfg, cwd, options.worktreeName)
    IN  IF context.threw # "none"
        THEN DevOutcome("threw", "getDevContext", w, <<>>, {}, context)
        ELSE IF ~existsSync(w, cfg, context.composePath, env)
        THEN DevOutcome("undefined", "existsSync", w, <<>>,
                        {"No docker-compose.yml found"}, context)
        ELSE Invoked(DevOutcome("undefined", "", w, <<"dockerComposeLogs">>, {},
                                context),
                     ComposeArgs(context))

\* listWorktrees: the checkouts of git worktree list are printed, with the
\* slots read from the registry of the root found from cwd; with detailed,
\* each is asked for uncommitted changes
listWorktrees(w, cfg, cwd, detailed) ==
    LET root == findProjectRoot(cwd, GitDirs(w, cfg))
        slots == loadSlots(SlotsAt(w, CHOOSE p \in root : TRUE))
        list == getExistingWorktrees(w)
    IN  IF root = {}
        THEN DevOutcome("threw", "findProjectRoot", w, <<>>, {}, NoContext)
        ELSE IF slots.kind = "null"
        THEN DevOutcome("threw", "loadSlots", w, <<>>, {}, NoContext)
        ELSE DevOutcome("undefined", "", w,
                        IF detailed
                        THEN [i \in DOMAIN list |-> "hasUncommittedChanges"]
                        ELSE <<>>,
                        {}, NoContext)

(***************************************************************************)
(* SpecDev: creates, edits of the catalog in worktree.toml and dev         *)
(* invocations, one at a time, run from the project root or from inside a  *)
(* checkout, with the worktree_dir the project configures.                 *)
(***************************************************************************)
WorktreeDirs == {".worktrees", ".wt"}

DevNames == {"wt-1", "wt-2"}

\* the catalog: one service api, its port main
DevConfig(dir, main) ==
    [DefaultConfig(DefaultOffset, MaxSlots,
                   <<Service("api", <<Port("main", main)>>)>>)
        EXCEPT !.project.worktree_dir = dir]
    @@ [hooks |-> <<>>]

DevConfigs(dir) == {DevConfig(dir, main) : main \in {3000, 3100}}

\* process.cwd(): the project root, a checkout, or a directory of a checkout
Cwds(w, cfg) ==
    {Root} \cup {WorktreePath(Root, cfg, n) \o t :
                    n \in w.dirs, t \in {<<>>, <<"src">>}}

DevTrace(o, options, env, cwd) ==
    Trace(o.calls, o.warnings, options, env)
    @@ [cwd |-> cwd, context |-> o.context, args |-> o.args]

DevStep(op, name, o) ==
    /\ SetWorld(o.w)
    /\ last' = Call(op, name, FALSE, o, 0)
    /\ UNCHANGED <<config, held, generated>>

\* a create run from the project root whose checkout succeeds
CreateDev(name, force, genOk) ==
    LET env == [rmOk |-> TRUE, gitOk |-> TRUE, copy |-> "skipped",
                genOk |-> genOk, hookFails |-> {}]
        o == createWorktree(World, config, name, force, TRUE, env)
    IN  /\ last.n < MaxDevCalls
        /\ CreateConsults(World, config, name, force, TRUE, env)
        /\ CreateStep(name, force, TRUE, env)
        /\ prev' = DevTrace(o @@ [context |-> NoContext, args |-> NoArgs],
                            [worktreeName |-> name, force |-> force], env, Root)

\* worktree.toml edited between two invocations
EditConfig(cfg) ==
    /\ last.n < MaxDevCalls
    /\ cfg # config
    /\ config' = cfg
    /\ last' = [last EXCEPT !.op = "edit", !.name = "", !.ret = "true",
                            !.end = "", !.pre = World, !.n = @ + 1]
    /\ UNCHANGED <<slotsFile, prev, held, worktrees, composeFiles, generated>>

StartConsults(w, cfg, cwd, options, env) ==
    LET context == getDevContext(w, cfg, cwd, options.worktreeName)
        atUp == env.docker /\ context.threw = "none"
        atWait == atUp /\ env.upOk
    IN  /\ ~atUp => env.upOk
        /\ ~atWait => env.healthy /\ env.ip

StartDev(cwd, options, env) ==
    LET o == startDev(World, config, cwd, options, env)
    IN  /\ last.n < MaxDevCalls
        /\ StartConsults(World, config, cwd, options, env)
        /\ DevStep("start", options.worktreeName, o)
        /\ prev' = DevTrace(o, options, env, cwd)

DownConsults(w, cfg, cwd, worktreeName, env) ==
    LET context == getDevContext(w, cfg, cwd, worktreeName)
        atMain == context.threw = "none" /\ ~context.isWorktree
        atDown == context.threw = "none"
                  /\ existsSync(w, cfg, context.composePath, env)
    IN  /\ ~atMain => ~env.mainCompose
        /\ ~atDown => env.downOk

StopDev(cwd, options, env) ==
    LET o == stopDev(World, config, cwd, options, env)
    IN  /\ last.n < MaxDevCalls
        /\ DownConsults(World, config, cwd, options.worktreeName, env)
        /\ DevStep("stop", options.worktreeName, o)
        /\ prev' = DevTrace(o, options, env, cwd)

StatusDev(cwd, worktreeName, env) ==
    LET o == statusDev(World, config, cwd, worktreeName, env)
    IN  /\ last.n < MaxDevCalls
        /\ DownConsults(World, config, cwd, worktreeName, env)
        /\ DevStep("status", worktreeName, o)
        /\ prev' = DevTrace(o, [worktreeName |-> worktreeName], env, cwd)

LogsDev(cwd, options, env) ==
    LET o == logsDev(World, config, cwd, options, env)
    IN  /\ last.n < MaxDevCalls
        /\ DownConsults(World, config, cwd, options.worktreeName, env)
        /\ DevStep("logs", options.worktreeName, o)
        /\ prev' = DevTrace(o, options, env, cwd)

ListWorktrees(cwd, detailed) ==
    LET o == listWorktrees(World, config, cwd, detailed)
    IN  /\ last.n < MaxDevCalls
        /\ DevStep("list", "", o)
        /\ prev' = DevTrace(o, [detailed |-> detailed], [downOk |-> TRUE], cwd)

InitDev ==
    /\ config \in {DevConfig(dir, 3000) : dir \in WorktreeDirs}
    /\ slotsFile = AbsentFile
    /\ last = [op |-> "none", name |-> "", force |-> FALSE, ret |-> "true",
               end |-> "", removed |-> 0, n |-> 0,
               pre |-> [slots |-> AbsentFile, dirs |-> {},
                        compose |-> [n \in Names |-> {}]]]
    /\ prev = DevTrace([calls |-> <<>>, warnings |-> {}, context |-> NoContext,
                        args |-> NoArgs],
                       [worktreeName |-> NoName], [downOk |-> TRUE], Root)
    /\ held = [n \in Names |-> {}]
    /\ worktrees = {}
    /\ composeFiles = [n \in Names |-> {}]
    /\ generated = [s \in {} |-> 0]

NextDev ==
    \/ \E name \in DevNames, force \in BOOLEAN, genOk \in BOOLEAN :
          CreateDev(name, force, genOk)
    \/ \E cfg \in DevConfigs(config.project.worktree_dir) : EditConfig(cfg)
    \/ \E cwd \in Cwds(World, config), name \in DevNames \cup {NoName},
          localSdk \in BOOLEAN,
          env \in [docker : BOOLEAN, upOk : BOOLEAN, healthy : BOOLEAN,
                   ip : BOOLEAN] :
          StartDev(cwd, [worktreeName |-> name, localSdk |-> localSdk], env)
    \/ \E cwd \in Cwds(World, config), name \in DevNames \cup {NoName},
          cleanYalc \in BOOLEAN,
          env \in [mainCompose : BOOLEAN, downOk : BOOLEAN] :
          StopDev(cwd, [worktreeName |-> name, cleanYalc |-> cleanYalc], env)
    \/ \E cwd \in Cwds(World, config), name \in DevNames \cup {NoName},
          env \in [mainCompose : BOOLEAN, downOk : {TRUE}] :
          StatusDev(cwd, name, env)
    \/ \E cwd \in Cwds(World, config), name \in DevNames \cup {NoName},
          env \in [mainCompose : BOOLEAN, downOk : {TRUE}] :
          LogsDev(cwd, [worktreeName |-> name], env)
    \/ \E cwd \in Cwds(World, config), detailed \in BOOLEAN :
          ListWorktrees(cwd, detailed)

SpecDev == InitDev /\ [][NextDev]_vars

\* the context of the invocation was resolved (getDevContext did not throw)
InContext == prev.context.threw = "none"

\* the definition file of the resolved context existed when the
\* invocation started
DefinitionExists ==
    IF prev.context.isWorktree
    THEN last.pre.compose[prev.context.worktreeName] # {}
    ELSE prev.env.mainCompose

(***************************************************************************)
(* C26: a start when the runtime engine is not available fails and has no  *)
(* effect: no definition file is written, docker compose up is never       *)
(* invoked and the registry is as before.                                  *)
(***************************************************************************)
C26_StartNeedsRuntime ==
    (last.op = "start" /\ ~prev.env.docker)
    => /\ last.ret = "false"
       /\ last.end = "isDockerAvailable"
       /\ prev.calls = <<>>
       /\ World = last.pre

\* the start was of an existing environment without a definition file,
\* which a start would have written
C26_Witness ==
    /\ last.op = "start" /\ ~prev.env.docker
    /\ last.name \in worktrees
    /\ last.name \in DOMAIN slotsFile.map
    /\ composeFiles[last.name] = {}

\* generate(name, slot the registry holds for name, the catalog now in
\* worktree.toml), as written by writeComposeFile
Regenerated(name) ==
    [slot |-> last.pre.slots.map[name],
     compose |-> generateCompose([worktreeName |-> name,
                                  slot |-> last.pre.slots.map[name],
                                  config |-> config])]

(***************************************************************************)
(* C27: every start of a named context writes generate(name, registry      *)
(* slot, current catalog) over the definition file before docker compose   *)
(* up is invoked, whether or not the file existed, so that the file        *)
(* reflects the catalog even when up fails; a start of the main context    *)
(* writes no definition file.                                              *)
(***************************************************************************)
C27_StartRegenerates ==
    (last.op = "start" /\ prev.env.docker /\ InContext)
    => /\ prev.context.isWorktree
            => /\ composeFiles[prev.context.worktreeName]
                    = {Regenerated(prev.context.worktreeName)}
               /\ \A n \in Names \ {prev.context.worktreeName} :
                    composeFiles[n] = last.pre.compose[n]
               /\ \E i \in DOMAIN prev.calls :
                    /\ prev.calls[i] = "writeComposeFile"
                    /\ \A j \in DOMAIN prev.calls :
                         prev.calls[j] = "dockerComposeUp" => i < j
               /\ "dockerComposeUp" \in Range(prev.calls)
       /\ ~prev.context.isWorktree
            => /\ composeFiles = last.pre.compose
               /\ "writeComposeFile" \notin Range(prev.calls)

\* the catalog was edited after the create: the start replaced the file
\* the create had written, and docker compose up failed
C27_Witness ==
    /\ last.op = "start" /\ last.ret = "false" /\ last.end = "dockerComposeUp"
    /\ prev.context.isWorktree
    /\ last.pre.compose[prev.context.worktreeName] # {}
    /\ last.pre.compose[prev.context.worktreeName]
         # composeFiles[prev.context.worktreeName]
    /\ FilePorts(prev.context.worktreeName) = {3100 + DefaultOffset}

(***************************************************************************)
(* C28: a stop of a context whose definition file does not exist returns   *)
(* success without invoking the runtime; when the file exists, docker      *)
(* compose down is invoked with the definition path and the namespace of   *)
(* that context; the local links are cleaned up only after a shutdown that *)
(* succeeded, and only when asked for.                                     *)
(***************************************************************************)
C28_StopOrder ==
    (last.op = "stop" /\ InContext)
    => /\ ~DefinitionExists
            => /\ last.ret = "true"
               /\ prev.calls = <<>>
               /\ prev.args = NoArgs
       /\ DefinitionExists
            => /\ prev.calls # <<>>
               /\ prev.calls[1] = "dockerComposeDown"
               /\ prev.args.composePath
                    = getComposePath(prev.context.projectRoot, config,
                                     prev.context.worktreeName)
               /\ prev.args.projectName
                    = (IF prev.context.isWorktree
                       THEN "wt-" \o prev.context.worktreeName
                       ELSE config.project.name)
               /\ last.ret = (IF prev.env.downOk THEN "true" ELSE "false")
       /\ "cleanupLocalDev" \in Range(prev.calls)
            <=> (DefinitionExists /\ prev.env.downOk /\ prev.options.cleanYalc)
       /\ \A i \in DOMAIN prev.calls :
            prev.calls[i] = "cleanupLocalDev" => i > 1
       /\ World = last.pre

\* the shutdown of a named environment failed and the clean-up that was
\* asked for did not run
C28_Witness ==
    /\ last.op = "stop" /\ last.ret = "false"
    /\ prev.context.isWorktree
    /\ prev.options.cleanYalc
    /\ prev.calls = <<"dockerComposeDown">>
    /\ prev.args.projectName = "wt-" \o last.name

(***************************************************************************)
(* C29: status, logs and list change nothing: the registry, the checkouts  *)
(* and the definition files are as before. When the definition file of the *)
(* context is absent, status and logs say so and return normally, without  *)
(* asking the runtime.                                                     *)
(***************************************************************************)
C29_ReadOnly ==
    /\ last.op \in {"status", "logs", "list"} => World = last.pre
    /\ (last.op \in {"status", "logs"} /\ InContext /\ ~DefinitionExists)
       => /\ last.ret = "undefined"
          /\ prev.calls = <<>>
          /\ prev.warnings = {"No docker-compose.yml found"}

\* the status of an existing environment that has a slot and no
\* definition file
C29_Witness ==
    /\ last.op = "status" /\ last.ret = "undefined"
    /\ prev.context.isWorktree
    /\ composeFiles[prev.context.worktreeName] = {}
    /\ prev.warnings # {}

\* the invocation ran inside the configured storage directory of the
\* project: the segment of cwd that follows it
Below ==
    IF /\ Len(prev.cwd) > Len(Root) + 1
       /\ IsPrefix(Root \o <<config.project.worktree_dir>>, prev.cwd)
    THEN {prev.cwd[Len(Root) + 2]}
    ELSE {}

(***************************************************************************)
(* C30: an invocation given no name, run from inside the worktree storage  *)
(* directory the project configures (whatever worktree_dir is), resolves   *)
(* the context named by the path segment that follows that directory; a    *)
(* name given explicitly is always the one resolved.                       *)
(***************************************************************************)
C30_ContextFromCwd ==
    (/\ last.op \in {"start", "stop", "status", "logs"}
     /\ last.op = "start" => prev.env.docker)
    => /\ (prev.options.worktreeName = NoName /\ Below # {})
            => prev.context.worktreeName \in Below
       /\ prev.options.worktreeName # NoName
            => prev.context.worktreeName = prev.options.worktreeName

\* the invocation went through getDevContext
Resolving ==
    /\ last.op \in {"start", "stop", "status", "logs"}
    /\ last.op = "start" => prev.env.docker

\* the storage directory of name, below the project root that was found,
\* existed when the invocation started
StorageExists(name) ==
    prev.context.projectRoot = Root /\ name \in last.pre.dirs

(***************************************************************************)
(* C31: context resolution with an effective name fails (not found) when   *)
(* the storage directory of the name does not exist, fails (no slot) when  *)
(* the directory exists and the registry has no entry for the name, and    *)
(* otherwise returns a context whose slot is the registry entry. With no   *)
(* effective name it returns the main context: slot 0, the project root as *)
(* working directory, the project name as namespace. The registry is never *)
(* modified.                                                               *)
(***************************************************************************)
C31_ContextResolution ==
    Resolving
    => LET name == prev.context.worktreeName
           reg == last.pre.slots.map
       IN  /\ (name # NoName /\ ~StorageExists(name))
                => prev.context.threw = "not found"
           /\ (name # NoName /\ StorageExists(name) /\ name \notin DOMAIN reg)
                => prev.context.threw = "no slot"
           /\ (name # NoName /\ StorageExists(name) /\ name \in DOMAIN reg)
                => /\ prev.context.threw = "none"
                   /\ prev.context.isWorktree
                   /\ prev.context.slot = reg[name]
           /\ name = NoName
                => /\ prev.context.threw = "none"
                   /\ ~prev.context.isWorktree
                   /\ prev.context.slot = 0
                   /\ prev.context.workingDir = prev.context.projectRoot
                   /\ prev.cwd = Root => prev.context.workingDir = Root
                   /\ prev.context.composeProject = config.project.name
           /\ slotsFile = last.pre.slots

\* an environment whose directory exists and whose registry entry is gone
\* (its name was created a second time without force) was asked for
C31_Witness ==
    /\ Resolving
    /\ prev.context.threw = "no slot"
    /\ prev.context.worktreeName \in worktrees
    /\ prev.context.worktreeName \notin DOMAIN slotsFile.map

(***************************************************************************)
(* SpecRace: two processes on the registry file of one project.  A call    *)
(* reads the whole file (loadSlots), works on what it read and writes the  *)
(* whole file back (saveSlots); nothing locks the file between the two.    *)
(* last[p] is the call process p is in, prev the calls that returned, in   *)
(* the order of their return.                                              *)
(***************************************************************************)
Procs == {1, 2}

RaceNames == {"wt-1", "wt-2"}

\* the call of ports.ts applied to the file as the process read it
registryCall(op, snapshot, name, maxWorktrees) ==
    IF op = "assign" THEN assignSlot(snapshot, name, maxWorktrees)
    ELSE releaseSlot(snapshot, name)

\* whether the call reaches saveSlots: releaseSlot always, assignSlot when
\* it gave the name a new slot
reachesSave(op, snapshot, r) ==
    IF op = "assign" THEN r.file # snapshot ELSE r.threw = "none"

\* the entries on disk kept beside the ones written
writeFileSyncMerged(current, data) ==
    JSONstringify(JsObject(data.map @@ current.map))

\* writeFileSync of saveSlots: the file is replaced by data
writeFileSync(current, data) == data

Idle == [pc |-> "idle", op |-> "none", name |-> "", snapshot |-> AbsentFile]

\* the calls made so far
Started == Len(prev) + Cardinality({p \in Procs : last[p].pc = "loaded"})

\* process p enters a call and reads the file
Load(p, op, name) ==
    /\ last[p].pc = "idle"
    /\ Started < MaxRaceCalls
    /\ last' = [last EXCEPT ![p] = [pc |-> "loaded", op |-> op, name |-> name,
                                    snapshot |-> slotsFile]]
    /\ UNCHANGED <<config, slotsFile, prev, held, worktrees, composeFiles,
                   generated>>

\* process p finishes its call on what it read, writing the file if the
\* call saves
Store(p) ==
    LET c == last[p]
        r == registryCall(c.op, c.snapshot, c.name, config.ports.max_worktrees)
        saves == reachesSave(c.op, c.snapshot, r)
        after == IF saves THEN writeFileSync(slotsFile, r.file) ELSE slotsFile
    IN  /\ c.pc = "loaded"
        /\ slotsFile' = after
        /\ prev' = Append(prev, [proc |-> p, op |-> c.op, name |-> c.name,
                                 read |-> c.snapshot, before |-> slotsFile,
                                 after |-> after, threw |-> r.threw,
                                 val |-> r.val])
        /\ last' = [last EXCEPT ![p] = Idle]
        /\ UNCHANGED <<config, held, worktrees, composeFiles, generated>>

InitRace ==
    /\ config = DefaultConfig(DefaultOffset, MaxSlots, <<>>)
    /\ slotsFile = AbsentFile
    /\ last = [p \in Procs |-> Idle]
    /\ prev = <<>>
    /\ held = [n \in Names |-> {}]
    /\ worktrees = {}
    /\ composeFiles = [n \in Names |-> {}]
    /\ generated = [s \in {} |-> 0]

NextRace ==
    \/ \E p \in Procs, op \in {"assign", "release"}, name \in RaceNames :
          Load(p, op, name)
    \/ \E p \in Procs : Store(p)

SpecRace == InitRace /\ [][NextRace]_vars

(***************************************************************************)
(* C32: with the read and the write of the file as separate steps of two   *)
(* processes, a call works on the file as it read it and its write         *)
(* replaces whatever is on disk: an assign returns the lowest slot free in *)
(* what it read and leaves the file at what it read plus its entry, a      *)
(* release leaves it at what it read minus its entry.  So a state is       *)
(* reachable where two assigns for distinct names returned the same slot   *)
(* and the entry the first one wrote is gone (C32_Witness).                *)
(***************************************************************************)
C32_WriteReplacesFile ==
    \A i \in DOMAIN prev :
        LET e == prev[i]
        IN  /\ e.threw \in {"none", "NoSlots"}
            /\ (e.op = "assign" /\ e.name \notin DOMAIN e.read.map
                /\ ~Full(e.read.map))
                 => \E v \in 1..MaxW :
                        /\ SmallestFree(e.read.map, v)
                        /\ e.val = {v}
                        /\ e.after.map = Plus(e.read.map, e.name, v)
            /\ (e.op = "assign" /\ (e.name \in DOMAIN e.read.map
                                    \/ Full(e.read.map)))
                 => e.after = e.before
            /\ e.op = "release" => e.after.map = Minus(e.read.map, e.name)

\* two assigns for distinct names both returned slot 1, and the registry
\* holds only the entry of the one that wrote last
C32_Witness ==
    \E i \in DOMAIN prev, j \in DOMAIN prev :
        /\ i < j
        /\ prev[i].op = "assign" /\ prev[j].op = "assign"
        /\ prev[i].proc # prev[j].proc
        /\ prev[i].name # prev[j].name
        /\ prev[i].val = {1} /\ prev[j].val = {1}
        /\ j = Len(prev)
        /\ DOMAIN slotsFile.map = {prev[j].name}

(***************************************************************************)
(* SpecWait: one waitForContainerHealthy of startDev, step by step, and    *)
(* what startDev makes of its answer.  last is the wait: where it is       *)
(* (test, probe, sleep, returned), the time since it started, the status   *)
(* last observed and what it returned; prev is the outcome of the start.   *)
(* The sleep between two probes lasts the poll interval and returns.       *)
(***************************************************************************)
pollInterval == 2000

\* the timeouts startDev passes: 90000 for neo4j, 60000 for core-api
Timeouts == {60000, 90000}

\* how long one docker inspect may take
ProbeTimes == {0, 1000}

\* what docker inspect prints, or "threw" when it exits non-zero
ProbeOutcomes == {"healthy", "starting", "unhealthy", "threw"}

\* the loop going round without time passing
afterSleepStalled(elapsed) == elapsed

\* execSync(`sleep ${pollInterval / 1000}`)
afterSleep(elapsed) == elapsed + pollInterval

\* while (Date.now() - start < timeoutMs)
Test ==
    /\ last.pc = "test"
    /\ last' = IF last.elapsed < last.timeoutMs
               THEN [last EXCEPT !.pc = "probe"]
               ELSE [last EXCEPT !.pc = "returned", !.ret = FALSE]
    /\ UNCHANGED <<config, slotsFile, prev, held, worktrees, composeFiles,
                   generated>>

\* docker inspect in its try: healthy returns true, anything else and a
\* failure go on to the sleep
Probe(outcome, took) ==
    /\ last.pc = "probe"
    /\ last' = [last EXCEPT !.elapsed = @ + took,
                            !.status = outcome,
                            !.pc = IF outcome = "healthy" THEN "returned"
                                   ELSE "sleep",
                            !.ret = (outcome = "healthy")]
    /\ UNCHANGED <<config, slotsFile, prev, held, worktrees, composeFiles,
                   generated>>

Sleep ==
    /\ last.pc = "sleep"
    /\ last' = [last EXCEPT !.elapsed = afterSleep(@), !.pc = "test"]
    /\ UNCHANGED <<config, slotsFile, prev, held, worktrees, composeFiles,
                   generated>>

\* startDev of the main context with what the wait returned
Report(ip) ==
    /\ last.pc = "returned"
    /\ last' = [last EXCEPT !.pc = "reported"]
    /\ prev' = startDev(World, config, Root,
                        [worktreeName |-> NoName, localSdk |-> FALSE],
                        [docker |-> TRUE, upOk |-> TRUE, healthy |-> last.ret,
                         ip |-> ip])
    /\ UNCHANGED <<config, slotsFile, held, worktrees, composeFiles, generated>>

InitWait ==
    /\ config = DevConfig(".worktrees", 3000)
    /\ slotsFile = AbsentFile
    /\ last \in {[pc |-> "test", elapsed |-> 0, timeoutMs |-> t,
                  status |-> "none", ret |-> FALSE] :
                    t \in Timeouts}
    /\ held = [n \in Names |-> {}]
    /\ worktrees = {}
    /\ composeFiles = [n \in Names |-> {}]
    /\ generated = [s \in {} |-> 0]
    /\ prev = DevOutcome("none", "", World, <<>>, {}, NoContext)

NextWait ==
    \/ Test
    \/ \E outcome \in ProbeOutcomes, took \in ProbeTimes : Probe(outcome, took)
    \/ Sleep
    \/ \E ip \in BOOLEAN : Report(ip)

\* the process keeps running: a step that can be taken is taken
SpecWait == InitWait /\ [][NextWait]_vars /\ WF_vars(NextWait)

(***************************************************************************)
(* C33: the health wait always returns: true only after it observed the    *)
(* status healthy, and otherwise false once the timeout has elapsed, a     *)
(* probe that fails counting as not yet healthy.  startDev takes false as  *)
(* a warning only: it goes on and reports success.                         *)
(***************************************************************************)
C33_HealthWaitTerminates ==
    /\ <>(last.pc = "reported")
    /\ [](last.pc \in {"returned", "reported"}
            => /\ last.ret => last.status = "healthy"
               /\ ~last.ret => /\ last.elapsed >= last.timeoutMs
                               /\ last.status # "healthy"
               /\ last.status # "none")
    /\ [](last.pc = "reported"
            => /\ prev.ret = "true"
               /\ "createTestUser" \in Range(prev.calls)
                    \/ prev.calls[Len(prev.calls)] = "getContainerIp"
               /\ ~last.ret <=> prev.warnings # {})

\* the wait of 60 seconds gave up after a probe that failed, and the start
\* reported success with a warning
C33_Witness ==
    /\ last.pc = "reported"
    /\ ~last.ret
    /\ last.timeoutMs = 60000
    /\ last.status = "threw"
    /\ last.elapsed >= 60000
    /\ prev.ret = "true"
    /\ prev.warnings # {}

(***************************************************************************)
(* C34: the port table (getServicePorts) agrees with the generator for     *)
(* every catalog and slot: it has one row per declared port of every       *)
(* service, the row's host is calculateHostPort(base, slot, offset), and   *)
(* that is the host the generated definition maps to the port's base.      *)
(***************************************************************************)
C34_PortTableAgrees ==
    \A slot \in DOMAIN generated :
        LET table == generated[slot].table
            declared == UNION {{<<i, j>> : j \in DOMAIN config.services[i].ports} :
                               i \in DOMAIN config.services}
        IN  /\ Len(table) = Cardinality(declared)
            /\ \A d \in declared :
                 LET service == config.services[d[1]]
                     port == service.ports[d[2]]
                     rows == {k \in DOMAIN table :
                                /\ table[k].service = service.name
                                /\ table[k].port = port.name}
                     pairs == PairsOut(generated[slot].compose, service.name)
                 IN  /\ Cardinality(rows) = 1
                     /\ \A k \in rows :
                          /\ table[k].base = port.base
                          /\ table[k].host
                               = calculateHostPort(port.base, slot,
                                                   config.ports.offset)
                          /\ pairs[d[2]].container = port.base
                          /\ pairs[d[2]].host = table[k].host

\* the table of a two-service catalog at slot 2: three rows, the debug port
\* of web shifted like the definition shifts it
C34_Witness ==
    /\ 2 \in DOMAIN generated
    /\ Len(generated[2].table) = 3
    /\ \E k \in DOMAIN generated[2].table :
          /\ generated[2].table[k].port = "debug"
          /\ generated[2].table[k].host = 3001 + 2 * config.ports.offset
          /\ generated[2].table[k].host \in HostPorts(generated[2].compose)
    /\ config.ports.offset > 0

\* the healthcheck the definition holds for a service: the set with it,
\* {} when it holds none
HealthOut(compose, name) ==
    IF Has(SvcOut(compose, name), "healthcheck")
    THEN {SvcOut(compose, name).healthcheck} ELSE {}

\* the configured value of a timing field when one is given, else d
Provided(hc, field, d) == IF Has(hc, field) THEN hc[field] ELSE d

(***************************************************************************)
(* C35: for a service with a healthcheck: when it has a path and the       *)
(* service declares a port named main, the definition of every slot holds  *)
(* an HTTP probe of localhost at the unshifted main port and that path;    *)
(* otherwise, when it has a shell test, a shell probe; otherwise no        *)
(* healthcheck.  interval, retries and start_period are the configured     *)
(* values whenever they are given, and 10s, 5 and 30s only when they are   *)
(* not.                                                                    *)
(***************************************************************************)
C35_HealthcheckSynthesis ==
    \A slot \in DOMAIN generated :
        \A i \in DOMAIN config.services :
            LET service == config.services[i]
                out == HealthOut(generated[slot].compose, service.name)
                hc == service.healthcheck
                mains == {j \in DOMAIN service.ports : service.ports[j].name = "main"}
            IN  IF ~Has(service, "healthcheck") THEN out = {}
                ELSE IF Has(hc, "path") /\ mains # {}
                THEN \E h \in out :
                        /\ h.test = <<"CMD", "curl", "-f">>
                        /\ h.url.host = "localhost"
                        /\ \A j \in mains : h.url.port = service.ports[j].base
                        /\ h.url.path = hc.path
                        /\ h.interval = Provided(hc, "interval", "10s")
                        /\ h.retries = Provided(hc, "retries", 5)
                        /\ h.start_period = Provided(hc, "start_period", "30s")
                ELSE IF Has(hc, "test")
                THEN \E h \in out :
                        /\ h.test = <<"CMD-SHELL", hc.test>>
                        /\ h.interval = Provided(hc, "interval", "10s")
                        /\ h.retries = Provided(hc, "retries", 5)
                        /\ h.start_period = Provided(hc, "start_period", "30s")
                ELSE out = {}

(***************************************************************************)
(* Create, start, stop and remove run from the project root, over catalogs *)
(* of one or two services: what the runtime is handed against the          *)
(* definition file it is handed.                                           *)
(***************************************************************************)

\* removeWorktree's dockerComposeDown({ composePath, projectName: `wt-${name}` })
removeComposeArgs(cfg, name) ==
    [composePath |-> WorktreePath(Root, cfg, name) \o <<getComposeFilename(name)>>,
     projectName |-> "wt-" \o name]

NsConfigs ==
    {DefaultConfig(DefaultOffset, MaxSlots, c) @@ [hooks |-> <<>>] :
        c \in {d \in Catalogs : \A i \in DOMAIN d : d[i].name \in {"api", "my-api"}}}

RemoveNs(name, options, env) ==
    LET o == removeWorktree(World, config, name, options, env)
        args == IF "dockerComposeDown" \in Range(o.calls)
                THEN removeComposeArgs(config, name) ELSE NoArgs
    IN  /\ last.n < MaxDevCalls
        /\ RemoveStep(name, options, env)
        /\ prev' = DevTrace(o @@ [context |-> NoContext, args |-> args],
                            options, env, Root)

InitNs ==
    /\ config \in NsConfigs
    /\ slotsFile = AbsentFile
    /\ last = [op |-> "none", name |-> "", force |-> FALSE, ret |-> "true",
               end |-> "", removed |-> 0, n |-> 0,
               pre |-> [slots |-> AbsentFile, dirs |-> {},
                        compose |-> [n \in Names |-> {}]]]
    /\ prev = DevTrace([calls |-> <<>>, warnings |-> {}, context |-> NoContext,
                        args |-> NoArgs],
                       [worktreeName |-> NoName], [downOk |-> TRUE], Root)
    /\ held = [n \in Names |-> {}]
    /\ worktrees = {}
    /\ composeFiles = [n \in Names |-> {}]
    /\ generated = [s \in {} |-> 0]

NextNs ==
    \/ \E name \in DevNames, force \in BOOLEAN, genOk \in BOOLEAN :
          CreateDev(name, force, genOk)
    \/ \E name \in DevNames \cup {NoName}, upOk \in BOOLEAN :
          StartDev(Root, [worktreeName |-> name, localSdk |-> FALSE],
                   [docker |-> TRUE, upOk |-> upOk, healthy |-> TRUE, ip |-> TRUE])
    \/ \E name \in DevNames \cup {NoName},
          env \in [mainCompose : BOOLEAN, downOk : BOOLEAN] :
          StopDev(Root, [worktreeName |-> name, cleanYalc |-> FALSE], env)
    \/ \E name \in DevNames, force \in BOOLEAN, env \in RemoveEnvs :
          RemoveNs(name, [force |-> force, deleteBranch |-> FALSE,
                          removeVolumes |-> FALSE], env)

SpecNs == InitNs /\ [][NextNs]_vars

\* the namespace prefix of a definition of the given environment and slot:
\* the project name for slot 0, wt-<name> otherwise
NamespacePrefix(cfg, name, slot) ==
    IF slot = 0 THEN cfg.project.name ELSE "wt-" \o name

\* a definition is laid out under one prefix: every container is
\* <prefix>-<service>, every service is on the one network <prefix>, and
\* that network is the only one declared
LaidOutUnder(compose, cfg, prefix) ==
    /\ Len(compose.services) = Len(cfg.services)
    /\ \A i \in DOMAIN cfg.services :
          LET out == SvcOut(compose, cfg.services[i].name)
          IN  /\ out.container_name = prefix \o "-" \o cfg.services[i].name
              /\ out.networks = <<prefix>>
    /\ Len(compose.networks) = 1
    /\ compose.networks[1].name = prefix

\* the definition file the runtime was pointed at by the last operation
FileHanded ==
    IF last.op = "start" THEN composeFiles[prev.context.worktreeName]
    ELSE IF last.op = "stop" THEN last.pre.compose[prev.context.worktreeName]
    ELSE last.pre.compose[last.name]

(***************************************************************************)
(* C36: in every generated definition each container is named              *)
(* <namespacePrefix>-<serviceName>, each service is attached to exactly    *)
(* one network, named <namespacePrefix>, and the top level declares        *)
(* exactly that network; and the project name start, stop and remove hand  *)
(* the runtime is the namespace prefix of the definition they hand it.     *)
(***************************************************************************)
C36_OneNamespace ==
    /\ \A name \in Names : \A f \in composeFiles[name] :
          LaidOutUnder(f.compose, config, NamespacePrefix(config, name, f.slot))
    /\ LaidOutUnder(generateCompose([worktreeName |-> NoName, slot |-> 0,
                                     config |-> config]),
                    config, config.project.name)
    /\ (last.op \in {"start", "stop", "remove"} /\ prev.args # NoArgs)
        => IF last.op # "remove" /\ ~prev.context.isWorktree
           THEN prev.args.projectName = NamespacePrefix(config, NoName, 0)
           ELSE /\ FileHanded # {}
                /\ \A f \in FileHanded :
                      /\ prev.args.projectName
                            = NamespacePrefix(config, last.name, f.slot)
                      /\ f.compose.networks[1].name = prev.args.projectName

\* a named environment of two services, one with a hyphen in its name, was
\* stopped under wt-<name>
C36_Witness ==
    /\ last.op = "stop" /\ last.name \in DevNames
    /\ prev.calls = <<"dockerComposeDown">>
    /\ prev.args.projectName = "wt-" \o last.name
    /\ Len(config.services) = 2
    /\ \A f \in last.pre.compose[last.name] :
          SvcOut(f.compose, "my-api").container_name
            = "wt-" \o last.name \o "-my-api"

(***************************************************************************)
(* C37: after any sequence of sequential create and remove invocations,    *)
(* every environment whose directory exists (each was created through the  *)
(* system) has a registry entry, so resolving it never ends in             *)
(* SlotNotAssigned.                                                        *)
(***************************************************************************)
C37_CreatedHaveEntries ==
    \A name \in worktrees :
        /\ name \in DOMAIN slotsFile.map
        /\ getDevContext(World, config @@ [hooks |-> <<>>], Root, name).threw
              # "no slot"

(***************************************************************************)
(* Create, remove and cleanupAll, between which the directory of an        *)
(* environment may be deleted by other means than remove (rm -rf, git      *)
(* worktree remove): existsSync(worktreePath) is then false for a name     *)
(* the registry still holds.                                               *)
(***************************************************************************)
DirLost(name) ==
    /\ last.n < MaxTraceCalls
    /\ name \in worktrees
    /\ SetWorld(RemoveDir(World, name))
    /\ last' = [last EXCEPT !.op = "lost", !.name = name, !.ret = "true",
                            !.end = "", !.pre = World, !.n = @ + 1]
    /\ UNCHANGED <<config, prev, held, generated>>

NextLost ==
    \/ NextTrace
    \/ \E name \in Names : DirLost(name)

SpecLost == InitTrace /\ [][NextLost]_vars

(***************************************************************************)
(* C38: whenever remove(name) returns success, the registry holds no entry *)
(* for name afterwards; in particular when the directory of name was       *)
(* already absent while the registry held an entry for it.                 *)
(***************************************************************************)
C38_RemoveClearsEntry ==
    (last.op = "remove" /\ last.ret = "true")
    => last.name \notin DOMAIN slotsFile.map

(***************************************************************************)
(* C39: every operation resolves the same project root, and so the same    *)
(* registry, whatever directory it is invoked from: list (as create,       *)
(* remove and cleanupAll, which resolve the root the same way) and start,  *)
(* stop, status and logs, also from inside a checkout.                     *)
(***************************************************************************)
C39_OneProjectRoot ==
    /\ last.op = "list"
        => /\ findProjectRoot(prev.cwd, GitDirs(last.pre, config)) = {Root}
           /\ \A p \in findProjectRoot(prev.cwd, GitDirs(last.pre, config)) :
                 SlotsAt(last.pre, p) = last.pre.slots
    /\ (last.op \in {"start", "stop", "status", "logs"}
        /\ prev.context.projectRoot # <<>>)
        => prev.context.projectRoot = Root

(***************************************************************************)
(* generateCompose for the main environment (slot 0) and for named         *)
(* environments whose names, like the service and project names, may hold  *)
(* hyphens.                                                                *)
(***************************************************************************)
IsoNames == {"x", "x-my", "y"}

ProjectNames == {"project", "wt-x"}

IsoConfigs ==
    {[DefaultConfig(DefaultOffset, MaxGenSlot, c) EXCEPT !.project.name = p] :
        p \in ProjectNames, c \in Catalogs}

\* the main environment is generated at slot 0, a named one at a slot >= 1
GenerateEnv(name, slot) ==
    /\ slot = 0 <=> name = NoName
    /\ Generate(name, slot)

InitIso ==
    /\ config \in IsoConfigs
    /\ slotsFile = AbsentFile
    /\ InitOther

NextIso ==
    \E name \in IsoNames \cup {NoName}, slot \in GenSlots : GenerateEnv(name, slot)

SpecIso == InitIso /\ [][NextIso]_vars

ContainersOf(compose) ==
    {compose.services[i].val.container_name : i \in DOMAIN compose.services}

NetworksOf(compose) == {compose.networks[i].name : i \in DOMAIN compose.networks}

VolumeNamesOf(compose) ==
    {VolumesOut(compose)[i].name : i \in DOMAIN VolumesOut(compose)}

(***************************************************************************)
(* C40: the definitions of two distinct environments of one project (main  *)
(* and a named one, or two of different names) share no container          *)
(* identity, no network name and no qualified named-volume name, whatever  *)
(* the catalog and also when names hold hyphens.                           *)
(***************************************************************************)
C40_NothingShared ==
    \A s1, s2 \in DOMAIN generated :
        (s1 # s2 /\ generated[s1].worktreeName # generated[s2].worktreeName)
        => /\ ContainersOf(generated[s1].compose)
                \cap ContainersOf(generated[s2].compose) = {}
           /\ NetworksOf(generated[s1].compose)
                \cap NetworksOf(generated[s2].compose) = {}
           /\ VolumeNamesOf(generated[s1].compose)
                \cap VolumeNamesOf(generated[s2].compose) = {}

====
